---- MODULE Spec2Model ----
(***************************************************************************)
(* The chat clients of dict-be (internal/llm): one call of Chat or         *)
(* ChatStream on an OpenAI-style, Anthropic-style or Gemini-style client,  *)
(* from the HTTP exchange to the returned (ChatResponse, error) (Spec),    *)
(* and the construction of a client from its configuration followed by     *)
(* calls with their HTTP requests: URL, headers and payload (SpecClient).  *)
(* SpecScenario is a call of the Anthropic-style client on the streams of  *)
(* its test scenario, SpecConc two ChatStream calls running at the same    *)
(* time on one client, SpecCLI the input functions of internal/cli.        *)
(*                                                                         *)
(* Representation.  A Go string is a TLA+ string, a nil-able pointer is a  *)
(* sequence of length 0 (nil) or 1, a slice is a sequence.  An error is a  *)
(* record [prefix, msg, status]: fmt.Errorf("p: %s", m) is                 *)
(* [prefix |-> "p: ", msg |-> m]; the nil error is NoError.                *)
(* A line of the response body is [pfx, kind, obj]: pfx says whether the   *)
(* trimmed line starts with "data:", kind classifies the text that is left *)
(* after the prefix is removed and the rest trimmed, and obj is the value  *)
(* encoding/json decodes from it when kind = "json":                       *)
(*   "empty"   nothing                     "done"  the text [DONE]         *)
(*   "junk"    text that is not JSON and does not begin with {             *)
(*   "badobj"  text that begins with { and is not JSON of the schema       *)
(*   "json"    a JSON object of the schema                                 *)
(***************************************************************************)
EXTENDS Integers, Sequences, FiniteSets, TLC

MaxLines == 3

StatusOK == 200
StatusMultipleChoices == 300

Providers == {"openai", "anthropic", "gemini"}

\* ------------------------------------------------------------------ values

NoError == [prefix |-> "", msg |-> "", status |-> 0]

Errorf(prefix, msg) == [prefix |-> prefix, msg |-> msg, status |-> 0]

StatusErrorf(prefix, msg, status) == [prefix |-> prefix, msg |-> msg, status |-> status]

ZeroResponse == [Content |-> "", Model |-> "", FinishReason |-> ""]

ChatResponse(content, model, finishReason) ==
    [Content |-> content, Model |-> model, FinishReason |-> finishReason]

\* The errors httpClient.Do and a read of the response body may fail with;
\* context.Canceled is what they return once the call's context is cancelled.
Canceled == "context canceled"
DoErrors == {"transport", Canceled}
ReadErrors == {"read", Canceled}
\* what Decode of a response body may fail with: bytes that are not the JSON
\* expected, or a read of the body that failed.
DecodeErrors == {"json", Canceled}

\* The errors a caller's StreamHandler may return.
HandlerErrors == { [prefix |-> "", msg |-> "handler failed", status |-> 0],
                   [prefix |-> "", msg |-> "broken pipe", status |-> 0] }

\* ------------------------------------------------------------ wire schemas

Nil == << >>
Ptr(v) == << v >>

ProviderError(message) == [Message |-> message]

OpenAIChoice(message, delta, finish) ==
    [Message |-> message, Delta |-> delta, FinishReason |-> finish]

OpenAIObj(model, choices, error) ==
    [Model |-> model, Choices |-> choices, Error |-> error]

AnthropicEvent(type, message, delta, stop, error) ==
    [Type |-> type, Message |-> message, Delta |-> delta,
     StopReason |-> stop, Error |-> error]

AnthropicBlock(type, text) == [Type |-> type, Text |-> text]

AnthropicObj(model, content, stop, error) ==
    [Model |-> model, Content |-> content, StopReason |-> stop, Error |-> error]

GeminiCandidate(parts, finish) == [Parts |-> parts, FinishReason |-> finish]

GeminiObj(candidates, modelVersion, error) ==
    [Candidates |-> candidates, ModelVersion |-> modelVersion, Error |-> error]

\* ------------------------------------------------------------------- lines

Line(pfx, kind, obj) == [pfx |-> pfx, kind |-> kind, obj |-> obj]

\* strings.TrimSpace(scanner.Text()) == ""
IsBlank(line) == ~line.pfx /\ line.kind = "empty"

\* strings.HasPrefix(line, "data:")
HasDataPrefix(line) == line.pfx

\* data == "[DONE]"
IsDone(line) == line.kind = "done"

\* strings.HasPrefix(data, "{")
HasBracePrefix(line) == line.kind \in {"badobj", "json"}

\* json.Unmarshal([]byte(data), &chunk) returns nil
UnmarshalOK(line) == line.kind = "json"

\* --------------------------------------------- one iteration of the scan loop
\* What one pass through the body of `for scanner.Scan()` decides, given the
\* line and the locals model and finishReason:
\*   continue  next line              break   leave the loop
\*   return    return (ChatResponse{}, err) from inside the loop
\*   delta     a non-empty delta: append it to content and call the handler

Continue(model, finishReason) ==
    [ctl |-> "continue", err |-> NoError, model |-> model,
     finishReason |-> finishReason, delta |-> ""]

Break(model, finishReason) ==
    [ctl |-> "break", err |-> NoError, model |-> model,
     finishReason |-> finishReason, delta |-> ""]

Return(err) ==
    [ctl |-> "return", err |-> err, model |-> "", finishReason |-> "", delta |-> ""]

Delta(model, finishReason, delta) ==
    [ctl |-> "delta", err |-> NoError, model |-> model,
     finishReason |-> finishReason, delta |-> delta]

\* OpenAIStreamLine without the test for the data: prefix.
OpenAIStreamLine_NoPrefixTest(line, model, finishReason) ==
    IF IsBlank(line) THEN Continue(model, finishReason)
    ELSE IF IsDone(line) THEN Break(model, finishReason)
    ELSE IF ~UnmarshalOK(line) THEN Return(Errorf("decode stream chunk: ", "json"))
    ELSE LET chunk == line.obj IN
      IF chunk.Error # Nil
      THEN Return(Errorf("openai error: ", chunk.Error[1].Message))
      ELSE LET m == IF chunk.Model # "" THEN chunk.Model ELSE model IN
        IF Len(chunk.Choices) = 0 THEN Continue(m, finishReason)
        ELSE LET f == IF chunk.Choices[1].FinishReason # ""
                      THEN chunk.Choices[1].FinishReason ELSE finishReason
                 delta == chunk.Choices[1].Delta
             IN IF delta = "" THEN Continue(m, f) ELSE Delta(m, f, delta)

\* OpenAIStreamLine with the model id assigned without the non-empty test.
OpenAIStreamLine_Unguarded(line, model, finishReason) ==
    IF IsBlank(line) \/ ~HasDataPrefix(line) THEN Continue(model, finishReason)
    ELSE IF IsDone(line) THEN Break(model, finishReason)
    ELSE IF ~UnmarshalOK(line) THEN Return(Errorf("decode stream chunk: ", "json"))
    ELSE LET chunk == line.obj IN
      IF chunk.Error # Nil
      THEN Return(Errorf("openai error: ", chunk.Error[1].Message))
      ELSE LET m == chunk.Model IN
        IF Len(chunk.Choices) = 0 THEN Continue(m, finishReason)
        ELSE LET f == IF chunk.Choices[1].FinishReason # ""
                      THEN chunk.Choices[1].FinishReason ELSE finishReason
                 delta == chunk.Choices[1].Delta
             IN IF delta = "" THEN Continue(m, f) ELSE Delta(m, f, delta)

\* OpenAIStreamLine that records the finish reason only of a chunk whose
\* delta is delivered.
OpenAIStreamLine_FinishWithDelta(line, model, finishReason) ==
    IF IsBlank(line) \/ ~HasDataPrefix(line) THEN Continue(model, finishReason)
    ELSE IF IsDone(line) THEN Break(model, finishReason)
    ELSE IF ~UnmarshalOK(line) THEN Return(Errorf("decode stream chunk: ", "json"))
    ELSE LET chunk == line.obj IN
      IF chunk.Error # Nil
      THEN Return(Errorf("openai error: ", chunk.Error[1].Message))
      ELSE LET m == IF chunk.Model # "" THEN chunk.Model ELSE model IN
        IF Len(chunk.Choices) = 0 THEN Continue(m, finishReason)
        ELSE LET f == IF chunk.Choices[1].FinishReason # ""
                      THEN chunk.Choices[1].FinishReason ELSE finishReason
                 delta == chunk.Choices[1].Delta
             IN IF delta = "" THEN Continue(m, finishReason) ELSE Delta(m, f, delta)

OpenAIStreamLine(line, model, finishReason) ==
    IF IsBlank(line) \/ ~HasDataPrefix(line) THEN Continue(model, finishReason)
    ELSE IF IsDone(line) THEN Break(model, finishReason)
    ELSE IF ~UnmarshalOK(line) THEN Return(Errorf("decode stream chunk: ", "json"))
    ELSE LET chunk == line.obj IN
      IF chunk.Error # Nil
      THEN Return(Errorf("openai error: ", chunk.Error[1].Message))
      ELSE LET m == IF chunk.Model # "" THEN chunk.Model ELSE model IN
        IF Len(chunk.Choices) = 0 THEN Continue(m, finishReason)
        ELSE LET f == IF chunk.Choices[1].FinishReason # ""
                      THEN chunk.Choices[1].FinishReason ELSE finishReason
                 delta == chunk.Choices[1].Delta
             IN IF delta = "" THEN Continue(m, f) ELSE Delta(m, f, delta)

\* AnthropicStreamLine without the test for the [DONE] payload.
AnthropicStreamLine_NoSentinel(line, model, finishReason) ==
    IF IsBlank(line) \/ ~HasDataPrefix(line) THEN Continue(model, finishReason)
    ELSE IF ~UnmarshalOK(line) THEN Return(Errorf("decode stream chunk: ", "json"))
    ELSE LET event == line.obj IN
      IF event.Type = "error" /\ event.Error # Nil
      THEN Return(Errorf("anthropic error: ", event.Error[1].Message))
      ELSE LET m == IF event.Type = "message_start" /\ event.Message # Nil
                       /\ event.Message[1].Model # ""
                    THEN event.Message[1].Model ELSE model
               f == IF event.Type = "message_delta" /\ event.StopReason # ""
                    THEN event.StopReason ELSE finishReason
           IN IF event.Type # "content_block_delta" \/ event.Delta = Nil
              THEN Continue(m, f)
              ELSE LET delta == event.Delta[1].Text
                   IN IF delta = "" THEN Continue(m, f) ELSE Delta(m, f, delta)

\* AnthropicStreamLine that takes model and stop reason from an event of any
\* type.
AnthropicStreamLine_AnyType(line, model, finishReason) ==
    IF IsBlank(line) \/ ~HasDataPrefix(line) THEN Continue(model, finishReason)
    ELSE IF IsDone(line) THEN Break(model, finishReason)
    ELSE IF ~UnmarshalOK(line) THEN Return(Errorf("decode stream chunk: ", "json"))
    ELSE LET event == line.obj IN
      IF event.Type = "error" /\ event.Error # Nil
      THEN Return(Errorf("anthropic error: ", event.Error[1].Message))
      ELSE LET m == IF event.Message # Nil /\ event.Message[1].Model # ""
                    THEN event.Message[1].Model ELSE model
               f == IF event.StopReason # "" THEN event.StopReason ELSE finishReason
           IN IF event.Type # "content_block_delta" \/ event.Delta = Nil
              THEN Continue(m, f)
              ELSE LET delta == event.Delta[1].Text
                   IN IF delta = "" THEN Continue(m, f) ELSE Delta(m, f, delta)

AnthropicStreamLine(line, model, finishReason) ==
    IF IsBlank(line) \/ ~HasDataPrefix(line) THEN Continue(model, finishReason)
    ELSE IF IsDone(line) THEN Break(model, finishReason)
    ELSE IF ~UnmarshalOK(line) THEN Return(Errorf("decode stream chunk: ", "json"))
    ELSE LET event == line.obj IN
      IF event.Type = "error" /\ event.Error # Nil
      THEN Return(Errorf("anthropic error: ", event.Error[1].Message))
      ELSE LET m == IF event.Type = "message_start" /\ event.Message # Nil
                       /\ event.Message[1].Model # ""
                    THEN event.Message[1].Model ELSE model
               f == IF event.Type = "message_delta" /\ event.StopReason # ""
                    THEN event.StopReason ELSE finishReason
           IN IF event.Type # "content_block_delta" \/ event.Delta = Nil
              THEN Continue(m, f)
              ELSE LET delta == event.Delta[1].Text
                   IN IF delta = "" THEN Continue(m, f) ELSE Delta(m, f, delta)

RECURSIVE flattenGeminiContent(_)
flattenGeminiContent(parts) ==
    IF Len(parts) = 0 THEN ""
    ELSE IF Head(parts) = "" THEN flattenGeminiContent(Tail(parts))
    ELSE Head(parts) \o flattenGeminiContent(Tail(parts))

\* GeminiChunkLine without the test for an empty delta.
GeminiChunkLine_NoEmptyTest(line, modelVersion, finishReason) ==
    LET chunk == line.obj IN
      IF chunk.Error # Nil
      THEN Return(Errorf("gemini error: ", chunk.Error[1].Message))
      ELSE LET m == IF chunk.ModelVersion # "" THEN chunk.ModelVersion
                    ELSE modelVersion IN
        IF Len(chunk.Candidates) = 0 THEN Continue(m, finishReason)
        ELSE LET f == IF chunk.Candidates[1].FinishReason # ""
                      THEN chunk.Candidates[1].FinishReason ELSE finishReason
             IN Delta(m, f, flattenGeminiContent(chunk.Candidates[1].Parts))

\* The rest of GeminiStreamLine, for a line that is not blank and not [DONE].
GeminiChunkLine(line, modelVersion, finishReason) ==
    LET chunk == line.obj IN
      IF chunk.Error # Nil
      THEN Return(Errorf("gemini error: ", chunk.Error[1].Message))
      ELSE LET m == IF chunk.ModelVersion # "" THEN chunk.ModelVersion
                    ELSE modelVersion IN
        IF Len(chunk.Candidates) = 0 THEN Continue(m, finishReason)
        ELSE LET f == IF chunk.Candidates[1].FinishReason # ""
                      THEN chunk.Candidates[1].FinishReason ELSE finishReason
                 delta == flattenGeminiContent(chunk.Candidates[1].Parts)
             IN IF delta = "" THEN Continue(m, f) ELSE Delta(m, f, delta)

\* GeminiStreamLine that skips a line without the data: prefix.
GeminiStreamLine_RequirePrefix(line, modelVersion, finishReason) ==
    IF IsBlank(line) \/ ~HasDataPrefix(line) THEN Continue(modelVersion, finishReason)
    ELSE IF IsDone(line) THEN Break(modelVersion, finishReason)
    ELSE IF ~HasBracePrefix(line) THEN Continue(modelVersion, finishReason)
    ELSE IF ~UnmarshalOK(line) THEN Return(Errorf("decode stream chunk: ", "json"))
    ELSE GeminiChunkLine(line, modelVersion, finishReason)

\* GeminiStreamLine with a chunk that fails to decode skipped.
GeminiStreamLine_SkipBad(line, modelVersion, finishReason) ==
    IF IsBlank(line) THEN Continue(modelVersion, finishReason)
    ELSE IF IsDone(line) THEN Break(modelVersion, finishReason)
    ELSE IF ~HasBracePrefix(line) THEN Continue(modelVersion, finishReason)
    ELSE IF ~UnmarshalOK(line) THEN Continue(modelVersion, finishReason)
    ELSE GeminiChunkLine(line, modelVersion, finishReason)

\* GeminiStreamLine with a payload that begins with no brace ending the loop.
GeminiStreamLine_JunkEnds(line, modelVersion, finishReason) ==
    IF IsBlank(line) THEN Continue(modelVersion, finishReason)
    ELSE IF IsDone(line) THEN Break(modelVersion, finishReason)
    ELSE IF ~HasBracePrefix(line) THEN Break(modelVersion, finishReason)
    ELSE IF ~UnmarshalOK(line) THEN Return(Errorf("decode stream chunk: ", "json"))
    ELSE GeminiChunkLine(line, modelVersion, finishReason)

GeminiStreamLine(line, modelVersion, finishReason) ==
    IF IsBlank(line) THEN Continue(modelVersion, finishReason)
    ELSE IF IsDone(line) THEN Break(modelVersion, finishReason)
    ELSE IF ~HasBracePrefix(line) THEN Continue(modelVersion, finishReason)
    ELSE IF ~UnmarshalOK(line) THEN Return(Errorf("decode stream chunk: ", "json"))
    ELSE GeminiChunkLine(line, modelVersion, finishReason)

StreamLine(a, line, model, finishReason) ==
    CASE a = "openai"    -> OpenAIStreamLine(line, model, finishReason)
      [] a = "anthropic" -> AnthropicStreamLine(line, model, finishReason)
      [] a = "gemini"    -> GeminiStreamLine(line, model, finishReason)

\* ------------------------------------------------------------ blocking call
\* body = [valid, obj]: whether the whole body decodes as JSON of the response
\* schema, and the decoded value.  A result is [resp, err].

Result(resp, err) == [resp |-> resp, err |-> err]

\* OpenAIChat with the choices looked at before the error object.
OpenAIChat_ChoicesFirst(body) ==
    IF ~body.valid THEN Result(ZeroResponse, Errorf("decode response: ", "json"))
    ELSE LET resp == body.obj IN
      IF Len(resp.Choices) # 0
      THEN Result(ChatResponse(resp.Choices[1].Message, resp.Model,
                               resp.Choices[1].FinishReason), NoError)
      ELSE IF resp.Error # Nil
      THEN Result(ZeroResponse, Errorf("openai error: ", resp.Error[1].Message))
      ELSE Result(ZeroResponse, Errorf("openai response has no choices", ""))

OpenAIChat(body) ==
    IF ~body.valid THEN Result(ZeroResponse, Errorf("decode response: ", "json"))
    ELSE LET resp == body.obj IN
      IF resp.Error # Nil
      THEN Result(ZeroResponse, Errorf("openai error: ", resp.Error[1].Message))
      ELSE IF Len(resp.Choices) = 0
      THEN Result(ZeroResponse, Errorf("openai response has no choices", ""))
      ELSE Result(ChatResponse(resp.Choices[1].Message, resp.Model,
                               resp.Choices[1].FinishReason), NoError)

\* flattenAnthropicContent that stops after the first block.
flattenAnthropicContent_FirstBlock(blocks) ==
    IF Len(blocks) = 0 THEN ""
    ELSE IF Head(blocks).Type # "text" THEN ""
    ELSE Head(blocks).Text

RECURSIVE flattenAnthropicContent(_)
flattenAnthropicContent(blocks) ==
    IF Len(blocks) = 0 THEN ""
    ELSE IF Head(blocks).Type # "text" THEN flattenAnthropicContent(Tail(blocks))
    ELSE Head(blocks).Text \o flattenAnthropicContent(Tail(blocks))

AnthropicChat(body) ==
    IF ~body.valid THEN Result(ZeroResponse, Errorf("decode response: ", "json"))
    ELSE LET resp == body.obj IN
      IF resp.Error # Nil
      THEN Result(ZeroResponse, Errorf("anthropic error: ", resp.Error[1].Message))
      ELSE Result(ChatResponse(flattenAnthropicContent(resp.Content), resp.Model,
                               resp.StopReason), NoError)

GeminiChat(body) ==
    IF ~body.valid THEN Result(ZeroResponse, Errorf("decode response: ", "json"))
    ELSE LET resp == body.obj IN
      IF resp.Error # Nil
      THEN Result(ZeroResponse, Errorf("gemini error: ", resp.Error[1].Message))
      ELSE IF Len(resp.Candidates) = 0
      THEN Result(ZeroResponse, Errorf("gemini response has no candidates", ""))
      ELSE Result(ChatResponse(flattenGeminiContent(resp.Candidates[1].Parts),
                               resp.ModelVersion,
                               resp.Candidates[1].FinishReason), NoError)

ChatDecoded(a, body) ==
    CASE a = "openai"    -> OpenAIChat(body)
      [] a = "anthropic" -> AnthropicChat(body)
      [] a = "gemini"    -> GeminiChat(body)

\* readOpenAIError / readAnthropicError / readGeminiError: the body of a
\* non-2xx response, decoded leniently (a decode failure is ignored).
readError(a, body, status) ==
    IF body.valid /\ body.obj.Error # Nil /\ body.obj.Error[1].Message # ""
    THEN StatusErrorf(a \o " request failed: ", body.obj.Error[1].Message, status)
    ELSE StatusErrorf(a \o " request failed with status", "", status)

\* -------------------------------------------------------------------- text
\* A configuration string, a model name or a URL is a sequence of tokens, each
\* a piece of text that the string functions used here never split: " " is
\* white space, "/" a slash, "v1" and "v1beta" the version segments, "%" a
\* malformed percent escape, "?x=1" and the like a whole query string with its
\* question mark; any other token is plain text without these.

RECURSIVE TrimLeftSpace(_)
TrimLeftSpace(s) ==
    IF s # << >> /\ Head(s) = " " THEN TrimLeftSpace(Tail(s)) ELSE s

\* strings.TrimRight(s, cutset) for a one-character cutset
RECURSIVE TrimRight(_, _)
TrimRight(s, c) ==
    IF s # << >> /\ s[Len(s)] = c THEN TrimRight(SubSeq(s, 1, Len(s) - 1), c) ELSE s

\* strings.TrimSpace
TrimSpace(s) == TrimRight(TrimLeftSpace(s), " ")

\* strings.HasSuffix
HasSuffix(s, suffix) ==
    Len(s) >= Len(suffix) /\ SubSeq(s, Len(s) - Len(suffix) + 1, Len(s)) = suffix

\* strings.TrimSuffix
TrimSuffix(s, suffix) ==
    IF HasSuffix(s, suffix) THEN SubSeq(s, 1, Len(s) - Len(suffix)) ELSE s

\* path.Clean for paths without dot segments: runs of slashes collapse, a
\* trailing slash goes unless the path is the root.
RECURSIVE CollapseSlashes(_)
CollapseSlashes(p) ==
    IF Len(p) < 2 THEN p
    ELSE IF p[1] = "/" /\ p[2] = "/" THEN CollapseSlashes(Tail(p))
    ELSE << Head(p) >> \o CollapseSlashes(Tail(p))

pathClean(p) ==
    LET c == CollapseSlashes(p)
    IN IF Len(c) > 1 /\ c[Len(c)] = "/" THEN SubSeq(c, 1, Len(c) - 1) ELSE c

\* path.Join of two elements: empty elements are ignored, the rest joined by
\* a slash and cleaned.
pathJoin(a, b) ==
    IF a = << >> THEN pathClean(b)
    ELSE IF b = << >> THEN pathClean(a)
    ELSE pathClean(a \o << "/" >> \o b)

\* ------------------------------------------------------------ construction
\* New*Client returns [client, err]; client is Nil when err is not.

DefaultHTTPClient == "http.Client{}"

defaultAnthropicVersion == << "2023-06-01" >>
defaultAnthropicMaxTokens == 1024

Config(baseURL, token, model, version, maxTokens, httpClient) ==
    [BaseURL |-> baseURL, Token |-> token, Model |-> model,
     Version |-> version, MaxTokens |-> maxTokens, HTTPClient |-> httpClient]

Constructed(client, err) == [client |-> client, err |-> err]

HTTPClientOf(cfg) ==
    IF cfg.HTTPClient = Nil THEN DefaultHTTPClient ELSE cfg.HTTPClient[1]

\* NewOpenAIClient that does not validate the token.
NewOpenAIClient_NoTokenCheck(cfg) ==
    LET baseURL == TrimSpace(cfg.BaseURL)
        token == TrimSpace(cfg.Token)
        model == TrimSpace(cfg.Model)
    IN IF baseURL = << >>
       THEN Constructed(Nil, Errorf("openai base url is required", ""))
       ELSE IF model = << >>
       THEN Constructed(Nil, Errorf("openai model is required", ""))
       ELSE Constructed(Ptr([baseURL |-> baseURL, token |-> token, model |-> model,
                             httpClient |-> HTTPClientOf(cfg)]), NoError)

NewOpenAIClient(cfg) ==
    LET baseURL == TrimSpace(cfg.BaseURL)
        token == TrimSpace(cfg.Token)
        model == TrimSpace(cfg.Model)
    IN IF baseURL = << >>
       THEN Constructed(Nil, Errorf("openai base url is required", ""))
       ELSE IF token = << >>
       THEN Constructed(Nil, Errorf("openai token is required", ""))
       ELSE IF model = << >>
       THEN Constructed(Nil, Errorf("openai model is required", ""))
       ELSE Constructed(Ptr([baseURL |-> baseURL, token |-> token, model |-> model,
                             httpClient |-> HTTPClientOf(cfg)]), NoError)

\* NewAnthropicClient that keeps a non-positive MaxTokens.
NewAnthropicClient_KeepMaxTokens(cfg) ==
    LET baseURL == TrimSpace(cfg.BaseURL)
        token == TrimSpace(cfg.Token)
        model == TrimSpace(cfg.Model)
        version == IF TrimSpace(cfg.Version) = << >> THEN defaultAnthropicVersion
                   ELSE TrimSpace(cfg.Version)
    IN IF baseURL = << >>
       THEN Constructed(Nil, Errorf("anthropic base url is required", ""))
       ELSE IF token = << >>
       THEN Constructed(Nil, Errorf("anthropic token is required", ""))
       ELSE IF model = << >>
       THEN Constructed(Nil, Errorf("anthropic model is required", ""))
       ELSE Constructed(Ptr([baseURL |-> baseURL, token |-> token, model |-> model,
                             version |-> version, maxTokens |-> cfg.MaxTokens,
                             httpClient |-> HTTPClientOf(cfg)]), NoError)

NewAnthropicClient(cfg) ==
    LET baseURL == TrimSpace(cfg.BaseURL)
        token == TrimSpace(cfg.Token)
        model == TrimSpace(cfg.Model)
        version == IF TrimSpace(cfg.Version) = << >> THEN defaultAnthropicVersion
                   ELSE TrimSpace(cfg.Version)
        maxTokens == IF cfg.MaxTokens <= 0 THEN defaultAnthropicMaxTokens
                     ELSE cfg.MaxTokens
    IN IF baseURL = << >>
       THEN Constructed(Nil, Errorf("anthropic base url is required", ""))
       ELSE IF token = << >>
       THEN Constructed(Nil, Errorf("anthropic token is required", ""))
       ELSE IF model = << >>
       THEN Constructed(Nil, Errorf("anthropic model is required", ""))
       ELSE Constructed(Ptr([baseURL |-> baseURL, token |-> token, model |-> model,
                             version |-> version, maxTokens |-> maxTokens,
                             httpClient |-> HTTPClientOf(cfg)]), NoError)

NewGeminiClient(cfg) ==
    LET baseURL == TrimSpace(cfg.BaseURL)
        token == TrimSpace(cfg.Token)
        model == TrimSpace(cfg.Model)
    IN IF baseURL = << >>
       THEN Constructed(Nil, Errorf("gemini base url is required", ""))
       ELSE IF token = << >>
       THEN Constructed(Nil, Errorf("gemini token is required", ""))
       ELSE IF model = << >>
       THEN Constructed(Nil, Errorf("gemini model is required", ""))
       ELSE Constructed(Ptr([baseURL |-> baseURL, token |-> token, model |-> model,
                             httpClient |-> HTTPClientOf(cfg)]), NoError)

NewClient(a, cfg) ==
    CASE a = "openai"    -> NewOpenAIClient(cfg)
      [] a = "anthropic" -> NewAnthropicClient(cfg)
      [] a = "gemini"    -> NewGeminiClient(cfg)

\* ------------------------------------------------------- request building

Message(role, content) == [Role |-> role, Content |-> content]

ChatRequest(model, messages) == [Model |-> model, Messages |-> messages]

\* resolveModel that tests the override without trimming it.
resolveModel_Untrimmed(c, override) ==
    IF override = << >> THEN c.model ELSE override

\* (c *OpenAIClient / *AnthropicClient / *GeminiClient) resolveModel
resolveModel(c, override) ==
    IF TrimSpace(override) = << >> THEN c.model ELSE override

\* url.Parse as far as the clients depend on it: it fails on a malformed
\* escape; otherwise the first token is scheme and host, a last token that
\* begins with a question mark is the query and what lies between is the path.
QueryTokens == {"?x=1", "?key=old", "?key=old&x=1"}

URLParses(u) == \A i \in 1..Len(u) : u[i] # "%"

URLHost(u) == Head(u)

URLHasQuery(u) == Len(u) > 1 /\ u[Len(u)] \in QueryTokens

URLPath(u) == IF URLHasQuery(u) THEN SubSeq(u, 2, Len(u) - 1) ELSE Tail(u)

QueryPair(k, v) == [k |-> k, v |-> v]

\* u.Query(): the pairs of the raw query, in order
URLQuery(u) ==
    IF ~URLHasQuery(u) THEN << >>
    ELSE CASE u[Len(u)] = "?x=1" -> << QueryPair("x", << "1" >>) >>
           [] u[Len(u)] = "?key=old" -> << QueryPair("key", << "old" >>) >>
           [] u[Len(u)] = "?key=old&x=1" ->
                << QueryPair("key", << "old" >>), QueryPair("x", << "1" >>) >>

\* url.Values.Set: the values of the key are replaced by the one value
QuerySet(q, k, v) ==
    SelectSeq(q, LAMBDA p : p.k # k) \o << QueryPair(k, v) >>

\* url.Values.Encode: the pairs sorted by key
QueryKeys == << "key", "x" >>

RECURSIVE QueryEncodeFrom(_, _)
QueryEncodeFrom(q, i) ==
    IF i > Len(QueryKeys) THEN << >>
    ELSE SelectSeq(q, LAMBDA p : p.k = QueryKeys[i]) \o QueryEncodeFrom(q, i + 1)

QueryEncode(q) == QueryEncodeFrom(q, 1)

ChatPath == << "/", "chat", "/", "completions" >>
MessagesPath == << "/", "messages" >>
V1 == << "/", "v1" >>
V1Beta == << "/", "v1beta" >>

\* buildChatEndpoint that strips no trailing slash.
buildChatEndpoint_NoStrip(baseURL) ==
    IF HasSuffix(baseURL, V1) THEN baseURL \o ChatPath
    ELSE baseURL \o V1 \o ChatPath

buildChatEndpoint(baseURL) ==
    LET base == TrimRight(baseURL, "/")
    IN IF HasSuffix(base, V1) THEN base \o ChatPath
       ELSE base \o V1 \o ChatPath

\* buildAnthropicEndpoint that always adds the version segment.
buildAnthropicEndpoint_AlwaysV1(baseURL) ==
    TrimRight(baseURL, "/") \o V1 \o MessagesPath

buildAnthropicEndpoint(baseURL) ==
    LET base == TrimRight(baseURL, "/")
    IN IF HasSuffix(base, V1) THEN base \o MessagesPath
       ELSE base \o V1 \o MessagesPath

Endpoint(url, err) == [url |-> url, err |-> err]

GeminiURL(host, path, query) == [Host |-> host, Path |-> path, Query |-> query]

GeminiVerb(stream) ==
    IF stream THEN << ":streamGenerateContent" >> ELSE << ":generateContent" >>

\* GeminiEndpointOf with the version segment always added
GeminiEndpointOf_AlwaysV1Beta(u, model, stream, token) ==
    LET trimmed == TrimSuffix(URLPath(u), << "/" >>)
        apiPath == pathJoin(trimmed, V1Beta)
        path == pathJoin(pathJoin(apiPath, << "models" >>), model \o GeminiVerb(stream))
    IN GeminiURL(URLHost(u), path, QueryEncode(QuerySet(URLQuery(u), "key", token)))

\* GeminiEndpointOf with the key added to the query, not set
GeminiEndpointOf_AddKey(u, model, stream, token) ==
    LET trimmed == TrimSuffix(URLPath(u), << "/" >>)
        apiPath == IF ~HasSuffix(trimmed, V1) /\ ~HasSuffix(trimmed, V1Beta)
                   THEN pathJoin(trimmed, V1Beta) ELSE trimmed
        path == pathJoin(pathJoin(apiPath, << "models" >>), model \o GeminiVerb(stream))
    IN GeminiURL(URLHost(u), path,
                 QueryEncode(URLQuery(u) \o << QueryPair("key", token) >>))

\* the part of buildGeminiEndpoint after url.Parse succeeded
GeminiEndpointOf(u, model, stream, token) ==
    LET trimmed == TrimSuffix(URLPath(u), << "/" >>)
        apiPath == IF ~HasSuffix(trimmed, V1) /\ ~HasSuffix(trimmed, V1Beta)
                   THEN pathJoin(trimmed, V1Beta) ELSE trimmed
        path == pathJoin(pathJoin(apiPath, << "models" >>), model \o GeminiVerb(stream))
    IN GeminiURL(URLHost(u), path, QueryEncode(QuerySet(URLQuery(u), "key", token)))

\* buildGeminiEndpoint that goes on when url.Parse fails.
buildGeminiEndpoint_NoParseCheck(baseURL, model, stream, token) ==
    LET base == TrimSpace(baseURL)
        m == TrimSpace(model)
    IN IF base = << >> THEN Endpoint(Nil, Errorf("gemini base url is required", ""))
       ELSE IF m = << >> THEN Endpoint(Nil, Errorf("gemini model is required", ""))
       ELSE IF TrimSpace(token) = << >>
       THEN Endpoint(Nil, Errorf("gemini token is required", ""))
       ELSE Endpoint(GeminiEndpointOf(base, m, stream, token), NoError)

buildGeminiEndpoint(baseURL, model, stream, token) ==
    LET base == TrimSpace(baseURL)
        m == TrimSpace(model)
    IN IF base = << >> THEN Endpoint(Nil, Errorf("gemini base url is required", ""))
       ELSE IF m = << >> THEN Endpoint(Nil, Errorf("gemini model is required", ""))
       ELSE IF TrimSpace(token) = << >>
       THEN Endpoint(Nil, Errorf("gemini token is required", ""))
       ELSE IF ~URLParses(base) THEN Endpoint(Nil, Errorf("invalid base url: ", "parse"))
       ELSE Endpoint(GeminiEndpointOf(base, m, stream, token), NoError)

\* --------------------------------------------------------- request payloads
\* The request structs as Chat and ChatStream fill them.  A slice is a
\* sequence; where nil and empty differ on the wire (Contents) the slice is
\* Nil or Ptr(sequence).

openAIChatRequest(model, messages, stream) ==
    [Model |-> model, Messages |-> messages, Stream |-> stream]

\* splitAnthropicMessages that looks for no system message.
splitAnthropicMessages_KeepAll(messages) ==
    [messages |-> messages, system |-> ""]

\* splitAnthropicMessages that takes a system message off wherever it is.
splitAnthropicMessages_Anywhere(messages) ==
    LET sys == SelectSeq(messages, LAMBDA m : m.Role = "system")
    IN [messages |-> SelectSeq(messages, LAMBDA m : m.Role # "system"),
        system |-> IF sys = << >> THEN "" ELSE sys[1].Content]

splitAnthropicMessages(messages) ==
    IF Len(messages) = 0 THEN [messages |-> messages, system |-> ""]
    ELSE IF messages[1].Role # "system" THEN [messages |-> messages, system |-> ""]
    ELSE [messages |-> Tail(messages), system |-> messages[1].Content]

anthropicChatRequest(model, messages, system, maxTokens, stream) ==
    [Model |-> model, Messages |-> messages, System |-> system,
     MaxTokens |-> maxTokens, Stream |-> stream]

geminiPart(text) == [Text |-> text]

geminiContent(role, parts) == [Role |-> role, Parts |-> parts]

geminiSystemInstruction(parts) == [Parts |-> parts]

\* the loop body of buildGeminiContents with the role left as it is
geminiContentOf_KeepRole(message) ==
    geminiContent(message.Role, << geminiPart(message.Content) >>)

\* the loop body of buildGeminiContents
geminiContentOf(message) ==
    geminiContent(IF message.Role = "assistant" THEN "model" ELSE message.Role,
                  << geminiPart(message.Content) >>)

buildGeminiContents(messages) ==
    IF Len(messages) = 0 THEN [contents |-> Nil, system |-> Nil]
    ELSE LET isSystem == messages[1].Role = "system"
             rest == IF isSystem THEN Tail(messages) ELSE messages
         IN [contents |-> Ptr([i \in 1..Len(rest) |-> geminiContentOf(rest[i])]),
             system |-> IF isSystem
                        THEN Ptr(geminiSystemInstruction(
                                     << geminiPart(messages[1].Content) >>))
                        ELSE Nil]

geminiGenerateContentRequest(contents, system) ==
    [Contents |-> contents, SystemInstruction |-> system]

\* ------------------------------------------------------------ json.Marshal
\* The JSON object of a request struct: a field tagged omitempty that holds
\* its zero value is left out (Nil), any other field is Ptr(value) or, when
\* it is never left out, the value.

OmitEmpty(v, zero) == IF v = zero THEN Nil ELSE Ptr(v)

MarshalMessage(m) == [role |-> m.Role, content |-> m.Content]

MarshalMessages(messages) == [i \in 1..Len(messages) |-> MarshalMessage(messages[i])]

MarshalOpenAI(p) ==
    [model |-> p.Model, messages |-> MarshalMessages(p.Messages),
     stream |-> OmitEmpty(p.Stream, FALSE)]

MarshalAnthropic(p) ==
    [model |-> p.Model, messages |-> MarshalMessages(p.Messages),
     system |-> OmitEmpty(p.System, ""), max_tokens |-> p.MaxTokens,
     stream |-> OmitEmpty(p.Stream, FALSE)]

MarshalGeminiPart(part) == [text |-> OmitEmpty(part.Text, "")]

MarshalGeminiParts(parts) == [i \in 1..Len(parts) |-> MarshalGeminiPart(parts[i])]

MarshalGeminiContent(c) ==
    [role |-> OmitEmpty(c.Role, ""), parts |-> MarshalGeminiParts(c.Parts)]

MarshalGemini(p) ==
    [contents |-> IF p.Contents = Nil THEN Nil
                  ELSE Ptr([i \in 1..Len(p.Contents[1]) |->
                               MarshalGeminiContent(p.Contents[1][i])]),
     systemInstruction |->
         IF p.SystemInstruction = Nil THEN Nil
         ELSE Ptr([parts |-> MarshalGeminiParts(p.SystemInstruction[1].Parts)])]

\* ------------------------------------------------------------ HTTP requests
\* What Chat and ChatStream hand to httpClient.Do: [request, err]; request is
\* Nil when building it failed.  A header value is a string of tokens.

HTTPRequest(url, header, payload) == [URL |-> url, Header |-> header, Body |-> payload]

Built(request, err) == [request |-> request, err |-> err]

ContentTypeHeader == "Content-Type" :> << "application/json" >>
AcceptHeader(stream) ==
    IF stream THEN "Accept" :> << "text/event-stream" >> ELSE << >>

OpenAIHeader(c, stream) ==
    ContentTypeHeader @@ ("Authorization" :> (<< "Bearer " >> \o c.token))
        @@ AcceptHeader(stream)

OpenAIRequest(c, req, stream) ==
    LET payload == openAIChatRequest(resolveModel(c, req.Model), req.Messages, stream)
        endpoint == buildChatEndpoint(c.baseURL)
    IN IF ~URLParses(endpoint) THEN Built(Nil, Errorf("create request: ", "parse"))
       ELSE Built(Ptr(HTTPRequest(endpoint, OpenAIHeader(c, stream),
                                  MarshalOpenAI(payload))), NoError)

AnthropicHeader(c, stream) ==
    ContentTypeHeader @@ AcceptHeader(stream) @@ ("x-api-key" :> c.token)
        @@ ("anthropic-version" :> c.version)

AnthropicRequest(c, req, stream) ==
    LET split == splitAnthropicMessages(req.Messages)
        payload == anthropicChatRequest(resolveModel(c, req.Model), split.messages,
                                        split.system, c.maxTokens, stream)
        endpoint == buildAnthropicEndpoint(c.baseURL)
    IN IF ~URLParses(endpoint) THEN Built(Nil, Errorf("create request: ", "parse"))
       ELSE Built(Ptr(HTTPRequest(endpoint, AnthropicHeader(c, stream),
                                  MarshalAnthropic(payload))), NoError)

GeminiHeader(c, stream) == ContentTypeHeader @@ AcceptHeader(stream)

GeminiRequest(c, req, stream) ==
    LET built == buildGeminiContents(req.Messages)
        payload == geminiGenerateContentRequest(built.contents, built.system)
        endpoint == buildGeminiEndpoint(c.baseURL, resolveModel(c, req.Model),
                                        stream, c.token)
    IN IF endpoint.err # NoError THEN Built(Nil, endpoint.err)
       ELSE Built(Ptr(HTTPRequest(endpoint.url, GeminiHeader(c, stream),
                                  MarshalGemini(payload))), NoError)

BuildRequest(a, c, req, o) ==
    CASE a = "openai"    -> OpenAIRequest(c, req, o = "ChatStream")
      [] a = "anthropic" -> AnthropicRequest(c, req, o = "ChatStream")
      [] a = "gemini"    -> GeminiRequest(c, req, o = "ChatStream")

\* ------------------------------------------------------------------ inputs
\* The lines a server may put on the stream, per wire protocol.

RawLines ==
    { Line(FALSE, "empty", Nil),      \* a blank line
      Line(FALSE, "junk", Nil),       \* ": keep-alive", "event: ping", "["
      Line(TRUE, "empty", Nil),       \* "data:"
      Line(TRUE, "done", Nil),        \* "data: [DONE]"
      Line(TRUE, "badobj", Nil) }     \* "data: {"

OpenAILines ==
    RawLines \cup
    { Line(FALSE, "json", OpenAIObj("", << >>, Ptr(ProviderError("rate limited")))),
      Line(TRUE, "json", OpenAIObj("m1", << OpenAIChoice("", "x", "stop") >>,
                                   Ptr(ProviderError("rate limited")))),
      Line(TRUE, "json", OpenAIObj("m1", << >>, Nil)),
      Line(TRUE, "json", OpenAIObj("", << OpenAIChoice("", "he", "") >>, Nil)),
      Line(TRUE, "json", OpenAIObj("m2", << OpenAIChoice("", "llo", "stop"),
                                            OpenAIChoice("", "zz", "length") >>, Nil)),
      Line(TRUE, "json", OpenAIObj("", << OpenAIChoice("no", "", "length") >>, Nil)) }

AnthropicLines ==
    RawLines \cup
    { Line(FALSE, "json", AnthropicEvent("error", Nil, Nil, "",
                                         Ptr(ProviderError("rate limited")))),
      Line(TRUE, "json", AnthropicEvent("error", Nil, Nil, "",
                                        Ptr(ProviderError("rate limited")))),
      Line(TRUE, "json", AnthropicEvent("message_start", Ptr([Model |-> "m2"]), Nil, "",
                                        Ptr(ProviderError("overloaded")))),
      Line(TRUE, "json", AnthropicEvent("message_start", Ptr([Model |-> "m1"]), Nil, "", Nil)),
      Line(TRUE, "json", AnthropicEvent("content_block_delta", Nil,
                                        Ptr([Text |-> "he"]), "", Nil)),
      Line(TRUE, "json", AnthropicEvent("content_block_delta", Nil,
                                        Ptr([Text |-> "llo"]), "", Nil)),
      Line(TRUE, "json", AnthropicEvent("message_delta", Nil, Nil, "end_turn", Nil)),
      Line(TRUE, "json", AnthropicEvent("ping", Ptr([Model |-> "m9"]),
                                        Ptr([Text |-> "zz"]), "pong", Nil)) }

GeminiLines ==
    RawLines \cup
    { Line(FALSE, "done", Nil),       \* "[DONE]"
      Line(FALSE, "badobj", Nil),     \* "{"
      Line(TRUE, "json", GeminiObj(<< GeminiCandidate(<< "x" >>, "STOP") >>, "m1",
                                   Ptr(ProviderError("rate limited")))),
      Line(TRUE, "json", GeminiObj(<< >>, "m1", Nil)),
      Line(TRUE, "json", GeminiObj(<< GeminiCandidate(<< "he" >>, "") >>, "", Nil)),
      Line(FALSE, "json", GeminiObj(<< GeminiCandidate(<< "l", "", "lo" >>, "STOP"),
                                       GeminiCandidate(<< "zz" >>, "OTHER") >>, "m2", Nil)),
      Line(TRUE, "json", GeminiObj(<< GeminiCandidate(<< >>, "MAX_TOKENS") >>, "", Nil)) }

LinesOf(a) ==
    CASE a = "openai"    -> OpenAILines
      [] a = "anthropic" -> AnthropicLines
      [] a = "gemini"    -> GeminiLines

\* All sequences over S of length at most n.
SeqsUpTo(S, n) == UNION { [1..k -> S] : k \in 0..n }

\* The bodies a server may answer a blocking call (or a refused call) with.
Body(valid, obj) == [valid |-> valid, obj |-> obj]

OpenAIBodies ==
    { Body(FALSE, Nil),
      Body(TRUE, OpenAIObj("gpt-test", << OpenAIChoice("hello", "", "stop"),
                                          OpenAIChoice("bye", "", "length") >>, Nil)),
      Body(TRUE, OpenAIObj("gpt-test", << >>, Nil)),
      Body(TRUE, OpenAIObj("gpt-test", << OpenAIChoice("hello", "", "stop") >>,
                           Ptr(ProviderError("rate limited")))),
      Body(TRUE, OpenAIObj("", << >>, Ptr(ProviderError("")))) }

AnthropicBodies ==
    { Body(FALSE, Nil),
      Body(TRUE, AnthropicObj("claude-test",
                              << AnthropicBlock("text", "he"),
                                 AnthropicBlock("tool_use", "zz"),
                                 AnthropicBlock("text", "llo") >>, "end_turn", Nil)),
      Body(TRUE, AnthropicObj("claude-test", << >>, "end_turn", Nil)),
      Body(TRUE, AnthropicObj("claude-test", << AnthropicBlock("text", "hello") >>,
                              "end_turn", Ptr(ProviderError("rate limited")))),
      Body(TRUE, AnthropicObj("", << >>, "", Ptr(ProviderError("")))) }

GeminiBodies ==
    { Body(FALSE, Nil),
      Body(TRUE, GeminiObj(<< GeminiCandidate(<< "he", "", "llo" >>, "STOP"),
                              GeminiCandidate(<< "bye" >>, "OTHER") >>, "gemini-test", Nil)),
      Body(TRUE, GeminiObj(<< >>, "gemini-test", Nil)),
      Body(TRUE, GeminiObj(<< GeminiCandidate(<< "hello" >>, "STOP") >>, "gemini-test",
                           Ptr(ProviderError("rate limited")))),
      Body(TRUE, GeminiObj(<< >>, "", Ptr(ProviderError("")))) }

BodiesOf(a) ==
    CASE a = "openai"    -> OpenAIBodies
      [] a = "anthropic" -> AnthropicBodies
      [] a = "gemini"    -> GeminiBodies

Statuses == {199, StatusOK, 299, StatusMultipleChoices, 404}

\* Configurations.  OpenAIConfig and GeminiConfig have no Version and no
\* MaxTokens: for them the two fields stay at << >> and 0 and are never read.
MaxPath == 4
MaxMsgs == 2
MaxCalls == 2

PathTokens == {"/", "v1", "v1beta", "a", "%"}

\* URL paths: empty, or beginning with a slash
Paths == { p \in SeqsUpTo(PathTokens, MaxPath) : p = << >> \/ p[1] = "/" }

Queries == { << >> } \cup { << q >> : q \in QueryTokens }

GoodBaseURL == << "h" >>
BadBaseURL == << "h", "/", "%" >>

BaseURLs ==
    { << >>, << " " >> } \cup
    UNION { { << "h" >> \o p \o q, << " ", "h" >> \o p \o q \o << " " >> } :
            p \in Paths, q \in Queries }

Blankable(t) == { << >>, << " " >>, << t >>, << " ", t, " " >> }

DefaultConfig == Config(GoodBaseURL, << "k" >>, << "m" >>, << >>, 0, Nil)

ConfigsOf(a) ==
    { Config(b, << "k" >>, << "m" >>, << >>, 0, Nil) : b \in BaseURLs } \cup
    { Config(b, t, m, v, n, h) :
        b \in {GoodBaseURL, << " " >>}, t \in Blankable("k"), m \in Blankable("m"),
        v \in IF a = "anthropic" THEN Blankable("v") ELSE { << >> },
        n \in IF a = "anthropic" THEN {-1, 0, 1, 2048} ELSE {0},
        h \in {Nil, Ptr("custom")} }

Msgs == { Message("system", "S"), Message("system", ""), Message("user", "hi"),
          Message("assistant", "yo"), Message("tool", "t") }

DefaultRequest == ChatRequest(<< >>, << Message("user", "hi") >>)

Requests ==
    { ChatRequest(<< >>, ms) : ms \in SeqsUpTo(Msgs, MaxMsgs) } \cup
    { ChatRequest(o, << Message("user", "hi") >>) : o \in Blankable("o") }

FollowUps ==
    { DefaultRequest,
      ChatRequest(<< "o" >>, << Message("system", "S"), Message("assistant", "yo") >>) }

\* The answer of the server when the call itself is not what is looked at.
DefaultBody(a) ==
    CASE a = "openai" ->
           Body(TRUE, OpenAIObj("gpt-test", << OpenAIChoice("hello", "", "stop") >>, Nil))
      [] a = "anthropic" ->
           Body(TRUE, AnthropicObj("claude-test", << AnthropicBlock("text", "hello") >>,
                                   "end_turn", Nil))
      [] a = "gemini" ->
           Body(TRUE, GeminiObj(<< GeminiCandidate(<< "hello" >>, "STOP") >>,
                                "gemini-test", Nil))

\* The streams of the Anthropic scenario: one message_start with a model, up
\* to MaxDeltas content_block_delta events with a text each, one message_delta
\* with a stop reason, and at most one event of another type put anywhere
\* among them.  An event of another type carries every field an event can
\* carry; an error event comes with and without its error object.
MaxDeltas == 2

ScenarioStream(m, texts, stop) ==
    << Line(TRUE, "json", AnthropicEvent("message_start", Ptr([Model |-> m]), Nil, "", Nil)) >>
    \o [i \in 1..Len(texts) |->
          Line(TRUE, "json", AnthropicEvent("content_block_delta", Nil,
                                            Ptr([Text |-> texts[i]]), "", Nil))]
    \o << Line(TRUE, "json", AnthropicEvent("message_delta", Nil, Nil, stop, Nil)) >>

OtherEvents ==
    { Line(TRUE, "json", AnthropicEvent("ping", Ptr([Model |-> "m9"]),
                                        Ptr([Text |-> "zz"]), "pong", Nil)),
      Line(TRUE, "json", AnthropicEvent("content_block_stop", Nil, Nil, "", Nil)),
      Line(TRUE, "json", AnthropicEvent("error", Ptr([Model |-> "m9"]),
                                        Ptr([Text |-> "zz"]), "pong", Nil)),
      Line(TRUE, "json", AnthropicEvent("error", Nil, Nil, "",
                                        Ptr(ProviderError("overloaded")))) }

InsertAt(s, k, l) == SubSeq(s, 1, k) \o << l >> \o SubSeq(s, k + 1, Len(s))

ScenarioStreams ==
    LET plain == { ScenarioStream(m, texts, stop) :
                     m \in {"claude-test", ""},
                     texts \in SeqsUpTo({"he", "llo", ""}, MaxDeltas),
                     stop \in {"end_turn", ""} }
    IN plain \cup UNION { { InsertAt(s, k, l) : k \in 0..Len(s), l \in OtherEvents } :
                            s \in plain }

\* What two calls that run at the same time read: streams of up to
\* MaxConcLines lines, each a chunk with a delta or the sentinel.
MaxConcLines == 2

ConcLines(a) ==
    { l \in LinesOf(a) : l.kind = "json" /\ l.obj.Error = Nil
                                         /\ StreamLine(a, l, "", "").ctl = "delta" }
    \cup { Line(TRUE, "done", Nil) }

DefaultStream(a) ==
    CASE a = "openai" ->
           << Line(TRUE, "json", OpenAIObj("m1", << OpenAIChoice("", "he", "") >>, Nil)) >>
      [] a = "anthropic" ->
           << Line(TRUE, "json", AnthropicEvent("content_block_delta", Nil,
                                                Ptr([Text |-> "he"]), "", Nil)) >>
      [] a = "gemini" ->
           << Line(TRUE, "json", GeminiObj(<< GeminiCandidate(<< "he" >>, "") >>, "m1", Nil)) >>

\* a status test that lets 300 through
Is2xx_Through300(status) == ~(status < StatusOK \/ status > StatusMultipleChoices)

Is2xx(status) == ~(status < StatusOK \/ status >= StatusMultipleChoices)

\* ------------------------------------------------------------------- state

VARIABLES
    cfg,           \* the configuration handed to New*Client
    client,        \* Nil, or Ptr of the client New*Client returned
    newErr,        \* the error New*Client returned
    req,           \* the ChatRequest of the call
    ncalls,        \* number of calls made on the client so far
    sent,          \* history: what was handed to httpClient.Do, [op, req, request]
    adapter,       \* which client the call is made on
    op,            \* "Chat" or "ChatStream"
    handle,        \* TRUE iff the StreamHandler argument is not nil
    httpStatus,    \* the status code the server answers with
    body,          \* the response body as one JSON document
    stream,        \* the response body as a sequence of lines
    pc,            \* "new", "failed", "idle", "start", "response", "scan", "returned",
                   \* "applied" (a function called on its own has returned),
                   \* "concurrent" (the calls are in conc), "cli"
    pos,           \* number of lines the scanner has handed to the loop
    content,       \* strings.Builder content
    model,         \* local model / modelVersion
    finishReason,  \* local finishReason
    delivered,     \* history: the handler's invocations, [line, delta, err]
    requests,      \* history: number of httpClient.Do calls
    bodyState,     \* response body: "none" (no response), "open", "closed"
    closes,        \* history: number of Body.Close() calls of the call
    args,          \* the arguments of a function called on its own
    result,        \* Nil, or Ptr of what that function returned
    conc,          \* the ChatStream calls running at the same time, one record each
    resp,          \* returned ChatResponse
    err            \* returned error

vars == << cfg, client, newErr, req, ncalls, sent, adapter, op, handle, httpStatus, body,
           stream, pc, pos, content, model, finishReason, delivered, requests,
           bodyState, closes, args, result, conc, resp, err >>

inputs == << cfg, client, newErr, req, ncalls, adapter, op, handle, httpStatus, body, stream,
             args, result, conc >>

locals == << pos, content, model, finishReason, delivered >>

\* The state after construction, at the start of one call.
Init ==
    /\ adapter \in Providers
    /\ cfg \in { DefaultConfig, [DefaultConfig EXCEPT !.BaseURL = BadBaseURL] }
    /\ client = NewClient(adapter, cfg).client
    /\ newErr = NewClient(adapter, cfg).err
    /\ req = DefaultRequest
    /\ ncalls = 1
    /\ sent = << >>
    /\ op \in {"Chat", "ChatStream"}
    /\ httpStatus \in Statuses
    /\ IF op = "Chat"
       THEN /\ handle = FALSE
            /\ body \in BodiesOf(adapter)
            /\ stream = << >>
       ELSE /\ handle \in BOOLEAN
            /\ IF httpStatus = StatusOK
               THEN body = Body(FALSE, Nil) /\ stream \in SeqsUpTo(LinesOf(adapter), MaxLines)
               ELSE body \in BodiesOf(adapter) /\ stream \in SeqsUpTo(LinesOf(adapter), 1)
    /\ pc = "start"
    /\ pos = 0
    /\ content = ""
    /\ model = ""
    /\ finishReason = ""
    /\ delivered = << >>
    /\ requests = 0
    /\ bodyState = "none"
    /\ closes = 0
    /\ args = Nil
    /\ result = Nil
    /\ conc = << >>
    /\ resp = ZeroResponse
    /\ err = NoError

\* ----------------------------------------------------------------- actions

\* return from the call: the deferred Body.Close() runs, the results are set.
\* a return without the deferred httpResp.Body.Close()
Returns_NoClose(r, e) ==
    /\ pc' = "returned"
    /\ UNCHANGED << bodyState, closes >>
    /\ resp' = r
    /\ err' = e

Returns(r, e) ==
    /\ pc' = "returned"
    /\ bodyState' = IF bodyState = "open" THEN "closed" ELSE bodyState
    /\ closes' = IF bodyState = "open" THEN closes + 1 ELSE closes
    /\ resp' = r
    /\ err' = e

\* the request cannot be built: the call returns before httpClient.Do.
BuildError ==
    /\ pc = "start"
    /\ BuildRequest(adapter, client[1], req, op).err # NoError
    /\ Returns(ZeroResponse, BuildRequest(adapter, client[1], req, op).err)
    /\ UNCHANGED << inputs, locals, requests, sent >>

\* the request goes to httpClient.Do
Do ==
    LET built == BuildRequest(adapter, client[1], req, op)
    IN /\ built.err = NoError
       /\ requests' = requests + 1
       /\ sent' = Append(sent, [op |-> op, req |-> req, request |-> built.request[1]])

\* a failed httpClient.Do that is tried once more
DoTransportError_Retry ==
    /\ pc = "start"
    /\ Do
    /\ IF requests = 0
       THEN UNCHANGED << pc, bodyState, closes, resp, err >>
       ELSE \E cause \in DoErrors :
                Returns(ZeroResponse, Errorf(adapter \o " request: ", cause))
    /\ UNCHANGED << inputs, locals >>

\* httpClient.Do fails, the transport or the context of the call being the
\* cause: no response, nothing to close.
DoTransportError ==
    /\ pc = "start"
    /\ Do
    /\ \E cause \in DoErrors : Returns(ZeroResponse, Errorf(adapter \o " request: ", cause))
    /\ UNCHANGED << inputs, locals >>

\* httpClient.Do returns a response; its body is open from here on.
DoResponse ==
    /\ pc = "start"
    /\ Do
    /\ pc' = "response"
    /\ bodyState' = "open"
    /\ UNCHANGED << inputs, locals, closes, resp, err >>

\* the status is not 2xx: both operations return the error read from the body.
StatusError ==
    /\ pc = "response"
    /\ ~Is2xx(httpStatus)
    /\ Returns(ZeroResponse, readError(adapter, body, httpStatus))
    /\ UNCHANGED << inputs, locals, requests, sent >>

\* Chat on a 2xx response: decode, error check, candidate extraction.
ChatDecode ==
    /\ pc = "response"
    /\ op = "Chat"
    /\ Is2xx(httpStatus)
    /\ LET r == ChatDecoded(adapter, body) IN
         IF r.err.prefix = "decode response: "
         THEN \E cause \in DecodeErrors : Returns(r.resp, Errorf(r.err.prefix, cause))
         ELSE Returns(r.resp, r.err)
    /\ UNCHANGED << inputs, locals, requests, sent >>

\* ChatStream on a 2xx response: the locals are declared, the scanner is made.
StreamBegin ==
    /\ pc = "response"
    /\ op = "ChatStream"
    /\ Is2xx(httpStatus)
    /\ pc' = "scan"
    /\ UNCHANGED << inputs, locals, requests, sent, bodyState, closes, resp, err >>

\* WriteString that replaces the builder's content.
WriteString_Overwrite(builder, delta) == delta

\* content.WriteString(delta)
WriteString(builder, delta) == builder \o delta

\* HandleDelta that ignores the handler's error and goes on.
HandleDelta_Swallow(r, herr) ==
    /\ delivered' = Append(delivered, [line |-> pos + 1, delta |-> r.delta, err |-> herr])
    /\ UNCHANGED << pc, bodyState, closes, resp, err >>

\* HandleDelta that hands the handler the accumulated content, not the delta.
HandleDelta_Accumulated(r, herr) ==
    /\ delivered' = Append(delivered, [line |-> pos + 1,
                                       delta |-> WriteString(content, r.delta),
                                       err |-> herr])
    /\ IF herr # NoError
       THEN Returns(ZeroResponse, herr)
       ELSE UNCHANGED << pc, bodyState, closes, resp, err >>

\* HandleDelta that returns what was accumulated together with the handler's
\* error.
HandleDelta_Partial(r, herr) ==
    /\ delivered' = Append(delivered, [line |-> pos + 1, delta |-> r.delta, err |-> herr])
    /\ IF herr # NoError
       THEN Returns(ChatResponse(WriteString(content, r.delta), r.model, r.finishReason), herr)
       ELSE UNCHANGED << pc, bodyState, closes, resp, err >>

\* `if handle != nil { if err := handle(delta); err != nil { return ... } }`
\* for a handler that is not nil and returns herr
HandleDelta(r, herr) ==
    /\ delivered' = Append(delivered, [line |-> pos + 1, delta |-> r.delta, err |-> herr])
    /\ IF herr # NoError
       THEN Returns(ZeroResponse, herr)
       ELSE UNCHANGED << pc, bodyState, closes, resp, err >>

\* a loop iteration that does not consume a line it skips
ScanLine_Stuck ==
    /\ pc = "scan"
    /\ pos < Len(stream)
    /\ LET r == StreamLine(adapter, stream[pos + 1], model, finishReason) IN
       /\ pos' = IF r.ctl = "continue" THEN pos ELSE pos + 1
       /\ CASE r.ctl = "continue" ->
                 /\ model' = r.model
                 /\ finishReason' = r.finishReason
                 /\ UNCHANGED << content, delivered, pc, bodyState, closes, resp, err >>
            [] r.ctl = "break" ->
                 /\ Returns(ChatResponse(content, model, finishReason), NoError)
                 /\ UNCHANGED << content, model, finishReason, delivered >>
            [] r.ctl = "return" ->
                 /\ Returns(ZeroResponse, r.err)
                 /\ UNCHANGED << content, model, finishReason, delivered >>
            [] r.ctl = "delta" ->
                 /\ model' = r.model
                 /\ finishReason' = r.finishReason
                 /\ content' = WriteString(content, r.delta)
                 /\ IF handle
                    THEN \E herr \in {NoError} \cup HandlerErrors : HandleDelta(r, herr)
                    ELSE UNCHANGED << delivered, pc, bodyState, closes, resp, err >>
    /\ UNCHANGED << inputs, requests, sent >>

\* a loop iteration that calls the handler without the nil test: the call of a
\* nil handler ends the ChatStream call with a failure.
ScanLine_CallsNil ==
    /\ pc = "scan"
    /\ pos < Len(stream)
    /\ LET r == StreamLine(adapter, stream[pos + 1], model, finishReason) IN
       /\ pos' = pos + 1
       /\ CASE r.ctl = "continue" ->
                 /\ model' = r.model
                 /\ finishReason' = r.finishReason
                 /\ UNCHANGED << content, delivered, pc, bodyState, closes, resp, err >>
            [] r.ctl = "break" ->
                 /\ Returns(ChatResponse(content, model, finishReason), NoError)
                 /\ UNCHANGED << content, model, finishReason, delivered >>
            [] r.ctl = "return" ->
                 /\ Returns(ZeroResponse, r.err)
                 /\ UNCHANGED << content, model, finishReason, delivered >>
            [] r.ctl = "delta" ->
                 /\ model' = r.model
                 /\ finishReason' = r.finishReason
                 /\ content' = WriteString(content, r.delta)
                 /\ IF handle
                    THEN \E herr \in {NoError} \cup HandlerErrors : HandleDelta(r, herr)
                    ELSE /\ Returns(ZeroResponse, Errorf("", "handler failed"))
                         /\ UNCHANGED delivered
    /\ UNCHANGED << inputs, requests, sent >>

\* one iteration of `for scanner.Scan()`: the next line is read and processed,
\* the handler call included.
ScanLine ==
    /\ pc = "scan"
    /\ pos < Len(stream)
    /\ LET r == StreamLine(adapter, stream[pos + 1], model, finishReason) IN
       /\ pos' = pos + 1
       /\ CASE r.ctl = "continue" ->
                 /\ model' = r.model
                 /\ finishReason' = r.finishReason
                 /\ UNCHANGED << content, delivered, pc, bodyState, closes, resp, err >>
            [] r.ctl = "break" ->
                 /\ Returns(ChatResponse(content, model, finishReason), NoError)
                 /\ UNCHANGED << content, model, finishReason, delivered >>
            [] r.ctl = "return" ->
                 /\ Returns(ZeroResponse, r.err)
                 /\ UNCHANGED << content, model, finishReason, delivered >>
            [] r.ctl = "delta" ->
                 /\ model' = r.model
                 /\ finishReason' = r.finishReason
                 /\ content' = WriteString(content, r.delta)
                 /\ IF handle
                    THEN \E herr \in {NoError} \cup HandlerErrors : HandleDelta(r, herr)
                    ELSE UNCHANGED << delivered, pc, bodyState, closes, resp, err >>
    /\ UNCHANGED << inputs, requests, sent >>

\* scanner.Scan() returns false at the end of the body and scanner.Err() is nil.
ScanEOF ==
    /\ pc = "scan"
    /\ pos = Len(stream)
    /\ Returns(ChatResponse(content, model, finishReason), NoError)
    /\ UNCHANGED << inputs, locals, requests, sent >>

\* a failed read that still returns what was accumulated
ScanReadError_Partial ==
    /\ pc = "scan"
    /\ \E cause \in ReadErrors :
         Returns(ChatResponse(content, model, finishReason), Errorf("read stream: ", cause))
    /\ UNCHANGED << inputs, locals, requests, sent >>

\* scanner.Scan() returns false because reading the body failed.
ScanReadError ==
    /\ pc = "scan"
    /\ \E cause \in ReadErrors : Returns(ZeroResponse, Errorf("read stream: ", cause))
    /\ UNCHANGED << inputs, locals, requests, sent >>

Next ==
    \/ BuildError
    \/ DoTransportError
    \/ DoResponse
    \/ StatusError
    \/ ChatDecode
    \/ StreamBegin
    \/ ScanLine
    \/ ScanEOF
    \/ ScanReadError

Spec == Init /\ [][Next]_vars

\* One line of the protocol for each way the loop can go on a line: skip it,
\* leave at the sentinel, fail to decode it, return its provider error,
\* deliver its delta.
LiveLines(a) ==
    LET Decides(l) == << StreamLine(a, l, "", "").ctl, StreamLine(a, l, "", "").err.prefix >>
    IN { l \in LinesOf(a) : l = CHOOSE k \in LinesOf(a) : Decides(k) = Decides(l) }

\* A call about to start; a streaming call answered 200 reads a stream made of
\* these lines.
InitLive ==
    /\ adapter \in Providers
    /\ cfg \in { DefaultConfig, [DefaultConfig EXCEPT !.BaseURL = BadBaseURL] }
    /\ client = NewClient(adapter, cfg).client
    /\ newErr = NewClient(adapter, cfg).err
    /\ req = DefaultRequest
    /\ ncalls = 1
    /\ sent = << >>
    /\ op \in {"Chat", "ChatStream"}
    /\ httpStatus \in {StatusOK, 404}
    /\ body = DefaultBody(adapter)
    /\ IF op = "ChatStream" /\ httpStatus = StatusOK /\ cfg = DefaultConfig
       THEN handle \in BOOLEAN /\ stream \in SeqsUpTo(LiveLines(adapter), MaxLines)
       ELSE handle = FALSE /\ stream = << >>
    /\ pc = "start"
    /\ pos = 0
    /\ content = ""
    /\ model = ""
    /\ finishReason = ""
    /\ delivered = << >>
    /\ requests = 0
    /\ bodyState = "none"
    /\ closes = 0
    /\ args = Nil
    /\ result = Nil
    /\ conc = << >>
    /\ resp = ZeroResponse
    /\ err = NoError

\* Once the response is in hand the call keeps running: the statement it is
\* at is executed, the handler returns, and scanner.Scan() returns for every
\* line and at the end of the body.  Nothing obliges a read of the body to
\* fail, and nothing is assumed of the transport before the response.
SpecLive ==
    /\ InitLive
    /\ [][Next]_vars
    /\ WF_vars(StatusError \/ ChatDecode \/ StreamBegin \/ ScanLine \/ ScanEOF)

\* ------------------------------------------- construction and several calls
\* A client is constructed from a configuration and then called up to
\* MaxCalls times, each call with its own operation and request.

InitClient ==
    /\ adapter \in Providers
    /\ cfg \in ConfigsOf(adapter)
    /\ client = Nil
    /\ newErr = NoError
    /\ req = DefaultRequest
    /\ ncalls = 0
    /\ sent = << >>
    /\ op = "Chat"
    /\ handle = TRUE
    /\ httpStatus \in {StatusOK, 404}
    /\ body = DefaultBody(adapter)
    /\ stream = DefaultStream(adapter)
    /\ pc = "new"
    /\ pos = 0
    /\ content = ""
    /\ model = ""
    /\ finishReason = ""
    /\ delivered = << >>
    /\ requests = 0
    /\ bodyState = "none"
    /\ closes = 0
    /\ args = Nil
    /\ result = Nil
    /\ conc = << >>
    /\ resp = ZeroResponse
    /\ err = NoError

\* New*Client(cfg)
Construct ==
    /\ pc = "new"
    /\ client' = NewClient(adapter, cfg).client
    /\ newErr' = NewClient(adapter, cfg).err
    /\ pc' = IF NewClient(adapter, cfg).err = NoError THEN "idle" ELSE "failed"
    /\ UNCHANGED << cfg, req, ncalls, sent, adapter, op, handle, httpStatus, body, stream,
                    args, result, conc,
                    locals, requests, bodyState, closes, resp, err >>

\* a call that stores the model it resolved in the client
NextCall_StoresModel ==
    /\ pc \in {"idle", "returned"}
    /\ ncalls < MaxCalls
    /\ ncalls' = ncalls + 1
    /\ op' \in {"Chat", "ChatStream"}
    /\ req' \in IF cfg # DefaultConfig THEN {DefaultRequest}
               ELSE IF ncalls = 0 THEN Requests ELSE FollowUps
    /\ client' = Ptr([client[1] EXCEPT !.model = resolveModel(client[1], req'.Model)])
    /\ pc' = "start"
    /\ pos' = 0
    /\ content' = ""
    /\ model' = ""
    /\ finishReason' = ""
    /\ delivered' = << >>
    /\ requests' = 0
    /\ bodyState' = "none"
    /\ closes' = 0
    /\ resp' = ZeroResponse
    /\ err' = NoError
    /\ UNCHANGED << cfg, newErr, sent, adapter, handle, httpStatus, body, stream,
                    args, result, conc >>

\* the caller makes a call on the client: Chat or ChatStream is entered with
\* fresh locals.  The requests are varied on the default configuration, the
\* first call over Requests and a later call over FollowUps.
NextCall ==
    /\ pc \in {"idle", "returned"}
    /\ ncalls < MaxCalls
    /\ ncalls' = ncalls + 1
    /\ op' \in {"Chat", "ChatStream"}
    /\ req' \in IF cfg # DefaultConfig THEN {DefaultRequest}
               ELSE IF ncalls = 0 THEN Requests ELSE FollowUps
    /\ pc' = "start"
    /\ pos' = 0
    /\ content' = ""
    /\ model' = ""
    /\ finishReason' = ""
    /\ delivered' = << >>
    /\ requests' = 0
    /\ bodyState' = "none"
    /\ closes' = 0
    /\ resp' = ZeroResponse
    /\ err' = NoError
    /\ UNCHANGED << cfg, client, newErr, sent, adapter, handle, httpStatus, body, stream,
                    args, result, conc >>

\* buildGeminiEndpoint called on its own, as code of the package can call it,
\* with the strings of the configuration as they are.
CallBuildGeminiEndpoint ==
    /\ pc = "new"
    /\ adapter = "gemini"
    /\ \E s \in BOOLEAN :
         /\ args' = << cfg.BaseURL, cfg.Model, s, cfg.Token >>
         /\ result' = Ptr(buildGeminiEndpoint(cfg.BaseURL, cfg.Model, s, cfg.Token))
    /\ pc' = "applied"
    /\ UNCHANGED << cfg, client, newErr, req, ncalls, sent, adapter, op, handle, httpStatus,
                    body, stream, conc, locals, requests, bodyState, closes, resp, err >>

\* The Anthropic client, constructed, about to make one call; a streaming
\* call that is answered 200 reads a stream of the scenario.
InitScenario ==
    /\ adapter = "anthropic"
    /\ cfg \in { DefaultConfig, [DefaultConfig EXCEPT !.BaseURL = BadBaseURL] }
    /\ client = NewClient(adapter, cfg).client
    /\ newErr = NewClient(adapter, cfg).err
    /\ req = DefaultRequest
    /\ ncalls = 1
    /\ sent = << >>
    /\ op \in {"Chat", "ChatStream"}
    /\ httpStatus \in {StatusOK, 404}
    /\ body = DefaultBody(adapter)
    /\ IF op = "ChatStream" /\ httpStatus = StatusOK /\ cfg = DefaultConfig
       THEN handle \in BOOLEAN /\ stream \in ScenarioStreams
       ELSE handle = FALSE /\ stream = << >>
    /\ pc = "start"
    /\ pos = 0
    /\ content = ""
    /\ model = ""
    /\ finishReason = ""
    /\ delivered = << >>
    /\ requests = 0
    /\ bodyState = "none"
    /\ closes = 0
    /\ args = Nil
    /\ result = Nil
    /\ conc = << >>
    /\ resp = ZeroResponse
    /\ err = NoError

SpecScenario == InitScenario /\ [][Next]_vars

\* ------------------------------------------------------ concurrent calls
\* One record per running ChatStream call: its response stream, its handler
\* (which fails at its failAt-th invocation, never when failAt = 0), and the
\* variables the function declares: position in the body, content builder,
\* model, finishReason, and what its handler has received.
StreamCall(s, failAt) ==
    [stream |-> s, failAt |-> failAt, pc |-> "start", pos |-> 0, content |-> "",
     model |-> "", finishReason |-> "", delivered |-> << >>,
     resp |-> ZeroResponse, err |-> NoError]

CallReturns(c, r, e) == [c EXCEPT !.pc = "returned", !.resp = r, !.err = e]

\* one iteration of `for scanner.Scan()` of call c, the handler call included
ScanStep(a, c) ==
    LET r == StreamLine(a, c.stream[c.pos + 1], c.model, c.finishReason)
        d == [c EXCEPT !.pos = c.pos + 1]
    IN CASE r.ctl = "continue" ->
              [d EXCEPT !.model = r.model, !.finishReason = r.finishReason]
         [] r.ctl = "break" ->
              CallReturns(d, ChatResponse(c.content, c.model, c.finishReason), NoError)
         [] r.ctl = "return" -> CallReturns(d, ZeroResponse, r.err)
         [] r.ctl = "delta" ->
              LET herr == IF Len(c.delivered) + 1 = c.failAt
                          THEN Errorf("", "handler failed") ELSE NoError
                  e == [d EXCEPT !.model = r.model, !.finishReason = r.finishReason,
                                 !.content = WriteString(c.content, r.delta),
                                 !.delivered = Append(c.delivered, r.delta)]
              IN IF herr # NoError THEN CallReturns(e, ZeroResponse, herr) ELSE e

InitConc ==
    /\ adapter \in Providers
    /\ cfg = DefaultConfig
    /\ client = NewClient(adapter, cfg).client
    /\ newErr = NewClient(adapter, cfg).err
    /\ req = DefaultRequest
    /\ ncalls = 2
    /\ sent = << >>
    /\ op = "ChatStream"
    /\ handle = TRUE
    /\ httpStatus = StatusOK
    /\ body = Body(FALSE, Nil)
    /\ stream = << >>
    /\ pc = "concurrent"
    /\ pos = 0
    /\ content = ""
    /\ model = ""
    /\ finishReason = ""
    /\ delivered = << >>
    /\ requests = 0
    /\ bodyState = "none"
    /\ closes = 0
    /\ args = Nil
    /\ result = Nil
    /\ conc \in [1..2 -> { StreamCall(s, f) :
                             s \in SeqsUpTo(ConcLines(adapter), MaxConcLines),
                             f \in 0..1 }]
    /\ resp = ZeroResponse
    /\ err = NoError

UnchangedButConc ==
    UNCHANGED << cfg, client, newErr, req, ncalls, adapter, op, handle, httpStatus, body,
                 stream, pc, locals, requests, bodyState, closes, args, result, resp, err >>

\* call i sends its request, made from the fields of the one client, and gets
\* its response
ConcBegin(i) ==
    /\ conc[i].pc = "start"
    /\ conc' = [conc EXCEPT ![i].pc = "scan"]
    /\ sent' = Append(sent, [op |-> op, req |-> req,
                             request |-> BuildRequest(adapter, client[1], req, op).request[1]])
    /\ UnchangedButConc

\* a loop iteration of call i on a content builder that both calls use
ConcScanLine_Shared(i) ==
    /\ conc[i].pc = "scan"
    /\ conc[i].pos < Len(conc[i].stream)
    /\ LET c == ScanStep(adapter, [conc[i] EXCEPT !.content = conc[1].content])
       IN conc' = [j \in 1..2 |-> IF j = i THEN c
                                  ELSE [conc[j] EXCEPT !.content = c.content]]
    /\ UNCHANGED sent
    /\ UnchangedButConc

\* a loop iteration of call i
ConcScanLine(i) ==
    /\ conc[i].pc = "scan"
    /\ conc[i].pos < Len(conc[i].stream)
    /\ conc' = [conc EXCEPT ![i] = ScanStep(adapter, conc[i])]
    /\ UNCHANGED sent
    /\ UnchangedButConc

\* call i finds the end of its body
ConcScanEOF(i) ==
    /\ conc[i].pc = "scan"
    /\ conc[i].pos = Len(conc[i].stream)
    /\ conc' = [conc EXCEPT ![i] =
                   CallReturns(conc[i], ChatResponse(conc[i].content, conc[i].model,
                                                     conc[i].finishReason), NoError)]
    /\ UNCHANGED sent
    /\ UnchangedButConc

\* a read of the body of call i fails
ConcScanReadError(i) ==
    /\ conc[i].pc = "scan"
    /\ \E cause \in ReadErrors :
         conc' = [conc EXCEPT ![i] =
                     CallReturns(conc[i], ZeroResponse, Errorf("read stream: ", cause))]
    /\ UNCHANGED sent
    /\ UnchangedButConc

NextConc ==
    \E i \in 1..2 :
        \/ ConcBegin(i)
        \/ ConcScanLine(i)
        \/ ConcScanEOF(i)
        \/ ConcScanReadError(i)

SpecConc == InitConc /\ [][NextConc]_vars

\* ------------------------------------------------------------ command line
\* internal/cli/query.go.  A text is a sequence of characters: "a" and "b"
\* stand for letters, " " is a space, "\r" and "\n" are CR and LF, "han" is a
\* character of the Han script and "kana" one of another script.  A reader
\* (stdin, or the file os.ReadFile opens) is [data, ok]: what it holds and
\* whether reading it succeeds.
MaxText == 3
MaxArgs == 2

\* trimTrailingNewline that removes one line feed.
trimTrailingNewline_Once(value) ==
    IF value # << >> /\ value[Len(value)] = "\n"
    THEN SubSeq(value, 1, Len(value) - 1) ELSE value

\* strings.TrimRight(value, "\r\n")
RECURSIVE trimTrailingNewline(_)
trimTrailingNewline(value) ==
    IF value # << >> /\ value[Len(value)] \in {"\r", "\n"}
    THEN trimTrailingNewline(SubSeq(value, 1, Len(value) - 1)) ELSE value

\* strings.Join(elems, sep)
RECURSIVE Join(_, _)
Join(elems, sep) ==
    IF elems = << >> THEN << >>
    ELSE IF Len(elems) = 1 THEN elems[1]
    ELSE elems[1] \o sep \o Join(Tail(elems), sep)

readInput(arguments, inputFile, stdin, file) ==
    IF inputFile # "" /\ Len(arguments) > 0
    THEN [text |-> << >>, err |-> Errorf("input args and -F are mutually exclusive", "")]
    ELSE IF inputFile = ""
    THEN IF Len(arguments) = 0
         THEN [text |-> << >>, err |-> Errorf("missing input: provide args or -F", "")]
         ELSE [text |-> Join(arguments, << " " >>), err |-> NoError]
    ELSE IF inputFile = "-"
    THEN IF ~stdin.ok THEN [text |-> << >>, err |-> Errorf("read stdin: ", "read")]
         ELSE [text |-> trimTrailingNewline(stdin.data), err |-> NoError]
    ELSE IF ~file.ok THEN [text |-> << >>, err |-> Errorf("read file: ", "read")]
         ELSE [text |-> trimTrailingNewline(file.data), err |-> NoError]

\* unicode.Is(unicode.Han, r) for some rune r of value
containsChinese(value) == \E i \in 1..Len(value) : value[i] = "han"

\* resolveLanguages that resolves when one of the two is auto.
resolveLanguages_EitherAuto(input, inputLanguage, outputLanguage) ==
    IF inputLanguage = "auto" \/ outputLanguage = "auto"
    THEN IF containsChinese(input) THEN << "Simplified Chinese", "English" >>
         ELSE << "English", "Simplified Chinese" >>
    ELSE << inputLanguage, outputLanguage >>

resolveLanguages(input, inputLanguage, outputLanguage) ==
    IF inputLanguage = "auto" /\ outputLanguage = "auto"
    THEN IF containsChinese(input) THEN << "Simplified Chinese", "English" >>
         ELSE << "English", "Simplified Chinese" >>
    ELSE << inputLanguage, outputLanguage >>

\* One of the two functions is about to be called on arguments of its types.
InitCLI ==
    LET Texts == SeqsUpTo({"a", " ", "\r", "\n"}, MaxText)
        Readers == { [data |-> t, ok |-> o] : t \in Texts, o \in BOOLEAN }
        Others == { [data |-> << "b" >>, ok |-> TRUE], [data |-> << >>, ok |-> FALSE] }
        Languages == {"auto", "Auto", "", "English", "Simplified Chinese"}
    IN
    /\ adapter = "openai"
    /\ cfg = DefaultConfig
    /\ client = Nil
    /\ newErr = NoError
    /\ req = DefaultRequest
    /\ ncalls = 0
    /\ sent = << >>
    /\ op = "Chat"
    /\ handle = FALSE
    /\ httpStatus = StatusOK
    /\ body = Body(FALSE, Nil)
    /\ stream = << >>
    /\ pc = "cli"
    /\ pos = 0
    /\ content = ""
    /\ model = ""
    /\ finishReason = ""
    /\ delivered = << >>
    /\ requests = 0
    /\ bodyState = "none"
    /\ closes = 0
    /\ \/ /\ args \in { [fn |-> "readInput", arguments |-> a, inputFile |-> f,
                          stdin |-> r[1], file |-> r[2]] :
                           a \in SeqsUpTo({<< >>, << "a" >>, << "b", " " >>}, MaxArgs),
                           f \in {"", "-", "input.txt"},
                           r \in (Readers \X Others) \cup (Others \X Readers) }
       \/ /\ args \in { [fn |-> "resolveLanguages", input |-> t,
                          inputLanguage |-> i, outputLanguage |-> o] :
                           t \in SeqsUpTo({"a", "kana", "han"}, MaxText),
                           i \in Languages, o \in Languages }
    /\ result = Nil
    /\ conc = << >>
    /\ resp = ZeroResponse
    /\ err = NoError

CallReadInput ==
    /\ pc = "cli"
    /\ args.fn = "readInput"
    /\ result' = Ptr(readInput(args.arguments, args.inputFile, args.stdin, args.file))
    /\ pc' = "applied"
    /\ UNCHANGED << cfg, client, newErr, req, ncalls, sent, adapter, op, handle, httpStatus,
                    body, stream, args, conc, locals, requests, bodyState, closes, resp, err >>

CallResolveLanguages ==
    /\ pc = "cli"
    /\ args.fn = "resolveLanguages"
    /\ result' = Ptr(resolveLanguages(args.input, args.inputLanguage, args.outputLanguage))
    /\ pc' = "applied"
    /\ UNCHANGED << cfg, client, newErr, req, ncalls, sent, adapter, op, handle, httpStatus,
                    body, stream, args, conc, locals, requests, bodyState, closes, resp, err >>

NextCLI ==
    \/ CallReadInput
    \/ CallResolveLanguages

SpecCLI == InitCLI /\ [][NextCLI]_vars

NextClient ==
    \/ Construct
    \/ NextCall
    \/ CallBuildGeminiEndpoint
    \/ Next

SpecClient == InitClient /\ [][NextClient]_vars


\* ---------------------------------------------------- what a stream carries
\* The wire protocols' own reading of a line, written from the schemas and not
\* from the scan loop: whether a line is decoded as a chunk, and the delta,
\* model id and finish reason that chunk carries.

IsChunk(a, line) == line.kind = "json" /\ (line.pfx \/ a = "gemini")

RECURSIVE Concat(_)
Concat(texts) == IF texts = << >> THEN "" ELSE Head(texts) \o Concat(Tail(texts))

ChunkDelta(a, obj) ==
    CASE a = "openai" ->
           IF obj.Choices = << >> THEN "" ELSE obj.Choices[1].Delta
      [] a = "anthropic" ->
           IF obj.Type = "content_block_delta" /\ obj.Delta # Nil
           THEN obj.Delta[1].Text ELSE ""
      [] a = "gemini" ->
           IF obj.Candidates = << >> THEN "" ELSE Concat(obj.Candidates[1].Parts)

ChunkModel(a, obj) ==
    CASE a = "openai" -> obj.Model
      [] a = "anthropic" ->
           IF obj.Type = "message_start" /\ obj.Message # Nil
           THEN obj.Message[1].Model ELSE ""
      [] a = "gemini" -> obj.ModelVersion

ChunkFinish(a, obj) ==
    CASE a = "openai" ->
           IF obj.Choices = << >> THEN "" ELSE obj.Choices[1].FinishReason
      [] a = "anthropic" ->
           IF obj.Type = "message_delta" THEN obj.StopReason ELSE ""
      [] a = "gemini" ->
           IF obj.Candidates = << >> THEN "" ELSE obj.Candidates[1].FinishReason

\* The handler calls lines 1..n of s ask for: one per chunk with a non-empty
\* delta, in wire order.
RECURSIVE ExpectedCalls(_, _, _)
ExpectedCalls(a, s, n) ==
    IF n = 0 THEN << >>
    ELSE IF IsChunk(a, s[n]) /\ ChunkDelta(a, s[n].obj) # ""
         THEN Append(ExpectedCalls(a, s, n - 1),
                     [line |-> n, delta |-> ChunkDelta(a, s[n].obj)])
         ELSE ExpectedCalls(a, s, n - 1)

\* The last non-empty model id / finish reason carried by a chunk of lines 1..n.
RECURSIVE LastModel(_, _, _)
LastModel(a, s, n) ==
    IF n = 0 THEN ""
    ELSE IF IsChunk(a, s[n]) /\ ChunkModel(a, s[n].obj) # ""
         THEN ChunkModel(a, s[n].obj)
         ELSE LastModel(a, s, n - 1)

RECURSIVE LastFinish(_, _, _)
LastFinish(a, s, n) ==
    IF n = 0 THEN ""
    ELSE IF IsChunk(a, s[n]) /\ ChunkFinish(a, s[n].obj) # ""
         THEN ChunkFinish(a, s[n].obj)
         ELSE LastFinish(a, s, n - 1)

Calls == [i \in 1..Len(delivered) |-> [line |-> delivered[i].line, delta |-> delivered[i].delta]]

Deltas == [i \in 1..Len(delivered) |-> delivered[i].delta]

InStream == op = "ChatStream" /\ pc \in {"scan", "returned"} /\ bodyState # "none"
            /\ Is2xx(httpStatus)

Returned == pc = "returned"

\* The call returned from inside the loop on a line it could not use.
FatalLine == Returned /\ err.prefix \in {"decode stream chunk: ", adapter \o " error: "}

\* The lines whose chunks took effect.
Effective == IF FatalLine THEN pos - 1 ELSE pos

\* ------------------------------------------------------------------ claims

\* C1: once the handler has returned an error on a delta, ChatStream has
\* returned exactly that error, that invocation is the handler's last one, and
\* no line after the one that carried the delta has been processed.
C1_HandlerAbort ==
    \A i \in 1..Len(delivered) :
        delivered[i].err # NoError =>
            /\ i = Len(delivered)
            /\ Returned
            /\ err = delivered[i].err
            /\ pos = delivered[i].line

\* C1 witness: the handler failed on its second delta, with lines left unread.
C1_Witness ==
    /\ Len(delivered) = 2
    /\ delivered[2].err \in HandlerErrors
    /\ pos < Len(stream)
    /\ IsChunk(adapter, stream[pos + 1]) /\ ChunkDelta(adapter, stream[pos + 1].obj) # ""

\* C2: the handler's invocations are exactly the non-empty deltas of the
\* chunks processed so far, one invocation per chunk, in wire order.
C2_DeltaOrdering ==
    (InStream /\ handle) => Calls = ExpectedCalls(adapter, stream, Effective)

\* C2 witness: two different deltas delivered, the second by the third line.
C2_Witness ==
    /\ Len(delivered) = 2
    /\ delivered[1].delta # delivered[2].delta
    /\ delivered[2].line = 3

\* C3: the accumulator is the concatenation of the deltas handed to the
\* handler so far, and a successful return carries it as the content.
C3_Accumulation ==
    (InStream /\ handle) =>
        /\ content = Concat(Deltas)
        /\ (Returned /\ err = NoError) => resp.Content = Concat(Deltas)

\* C3 witness: a successful return after two deltas.
C3_Witness ==
    /\ InStream /\ handle /\ Returned /\ err = NoError
    /\ Len(delivered) = 2
    /\ resp.Content = "hello"

\* C4: the tracked model and finish reason are the last non-empty ones carried
\* by the chunks processed so far, and a successful return carries them.
C4_StickyFields ==
    (InStream /\ (pc = "scan" \/ err = NoError)) =>
        /\ model = LastModel(adapter, stream, pos)
        /\ finishReason = LastFinish(adapter, stream, pos)
        /\ Returned => /\ resp.Model = LastModel(adapter, stream, pos)
                       /\ resp.FinishReason = LastFinish(adapter, stream, pos)

\* C4 witness: a successful return whose last chunk carries neither a model
\* nor a finish reason, after chunks that carried both.
C4_Witness ==
    /\ InStream /\ Returned /\ err = NoError
    /\ pos = Len(stream) /\ pos >= 2
    /\ IsChunk(adapter, stream[pos])
    /\ ChunkModel(adapter, stream[pos].obj) = ""
    /\ ChunkFinish(adapter, stream[pos].obj) = ""
    /\ resp.Model # "" /\ resp.FinishReason # ""


\* The result candidates of a decoded blocking response.
Candidates(a, obj) ==
    CASE a = "openai"    -> obj.Choices
      [] a = "anthropic" -> obj.Content
      [] a = "gemini"    -> obj.Candidates

\* Chat returned after decoding the body of a 2xx response.
ChatDecodedBody ==
    op = "Chat" /\ Returned /\ bodyState = "closed" /\ Is2xx(httpStatus) /\ body.valid

\* C5: Chat fails when the decoded 2xx response has zero result candidates.
C5_ZeroCandidates ==
    (ChatDecodedBody /\ Candidates(adapter, body.obj) = << >>) => err # NoError

\* C6: Chat fails with the provider's message when the decoded 2xx response
\* has an error object, whatever candidates it also carries.
C6_ProviderErrorBlocking ==
    (ChatDecodedBody /\ body.obj.Error # Nil) =>
        /\ err # NoError
        /\ err.msg = body.obj.Error[1].Message
        /\ resp = ZeroResponse

\* C6 witness: a 2xx response with an error object and a valid candidate.
C6_Witness ==
    /\ ChatDecodedBody
    /\ body.obj.Error # Nil
    /\ Candidates(adapter, body.obj) # << >>
    /\ err.msg = "rate limited"

\* C7: a processed chunk that carries a provider error field is the last line
\* processed: ChatStream has returned the provider error and the handler was
\* invoked neither for that chunk nor later.
C7_ProviderErrorStream ==
    InStream =>
        \A i \in 1..pos :
            (IsChunk(adapter, stream[i]) /\ stream[i].obj.Error # Nil) =>
                /\ i = pos
                /\ Returned
                /\ err = Errorf(adapter \o " error: ", stream[i].obj.Error[1].Message)
                /\ \A j \in 1..Len(delivered) : delivered[j].line < i

\* A line that reaches the JSON decoder: a data payload other than the
\* sentinel (for Gemini: a payload that begins with a brace).
PassesFilter(a, line) ==
    IF a = "gemini" THEN line.kind \in {"badobj", "json"}
    ELSE line.pfx /\ line.kind # "done"

\* C8: a processed line that passes the filter and is not valid JSON is the
\* last line processed: ChatStream has returned a decode error and no delta
\* of that line or a later one was delivered.
C8_DecodeFatal ==
    InStream =>
        \A i \in 1..pos :
            (PassesFilter(adapter, stream[i]) /\ stream[i].kind # "json") =>
                /\ i = pos
                /\ Returned
                /\ err.prefix = "decode stream chunk: "
                /\ \A j \in 1..Len(delivered) : delivered[j].line < i

\* C8 witness: a decode error after a delivered delta, with a delta left unread.
C8_Witness ==
    /\ InStream /\ Returned
    /\ err.prefix = "decode stream chunk: "
    /\ Len(delivered) = 1
    /\ pos < Len(stream)
    /\ IsChunk(adapter, stream[pos + 1]) /\ ChunkDelta(adapter, stream[pos + 1].obj) # ""

\* C9: for the OpenAI-style and Anthropic-style clients a processed sentinel
\* line is the last line processed: ChatStream has returned successfully with
\* what the lines before the sentinel carry, and the handler was invoked for
\* those lines only.
C9_Sentinel ==
    (InStream /\ adapter \in {"openai", "anthropic"}) =>
        \A i \in 1..pos :
            (stream[i].pfx /\ stream[i].kind = "done") =>
                /\ i = pos
                /\ Returned
                /\ err = NoError
                /\ LET calls == ExpectedCalls(adapter, stream, i - 1) IN
                   /\ resp.Content = Concat([k \in 1..Len(calls) |-> calls[k].delta])
                   /\ handle => Calls = calls
                /\ resp.Model = LastModel(adapter, stream, i - 1)
                /\ resp.FinishReason = LastFinish(adapter, stream, i - 1)

\* C9 witness: a sentinel after a delta, followed by a line that is not read.
C9_Witness ==
    /\ InStream /\ adapter \in {"openai", "anthropic"} /\ Returned
    /\ pos = 2 /\ pos < Len(stream)
    /\ stream[pos].pfx /\ stream[pos].kind = "done"
    /\ stream[pos + 1].kind \in {"badobj", "json"}
    /\ resp.Content # ""

\* How a Gemini-style stream call that returned left the loop, by the error
\* and the last line processed.
GeminiEndOfInput == err = NoError /\ pos = Len(stream)
GeminiSentinel == err = NoError /\ pos >= 1 /\ stream[pos].kind = "done"
GeminiReadError == err.prefix = "read stream: "
GeminiDecodeError ==
    err.prefix = "decode stream chunk: " /\ pos >= 1 /\ stream[pos].kind = "badobj"
GeminiProviderError ==
    err.prefix = "gemini error: " /\ pos >= 1 /\ stream[pos].kind = "json"
        /\ stream[pos].obj.Error # Nil
GeminiHandlerError ==
    err \in HandlerErrors /\ delivered # << >>
        /\ delivered[Len(delivered)].line = pos
        /\ delivered[Len(delivered)].err = err

FirstIsSystem(ms) == ms # << >> /\ ms[1].Role = "system"

PartText(part) == IF part.text = Nil THEN "" ELSE part.text[1]

PartsText(parts) == Concat([i \in 1..Len(parts) |-> PartText(parts[i])])

WireSystem(a, payload) ==
    CASE a = "openai"    -> Nil
      [] a = "anthropic" -> payload.system
      [] a = "gemini"    ->
           IF payload.systemInstruction = Nil THEN Nil
           ELSE Ptr(PartsText(payload.systemInstruction[1].parts))

WireList(a, payload) ==
    CASE a \in {"openai", "anthropic"} -> payload.messages
      [] a = "gemini" ->
           IF payload.contents = Nil THEN << >>
           ELSE LET cs == payload.contents[1]
                IN [i \in 1..Len(cs) |->
                      [role |-> IF cs[i].role = Nil THEN "" ELSE cs[i].role[1],
                       content |-> PartsText(cs[i].parts)]]

ContentsOf(list) == [i \in 1..Len(list) |-> list[i].content]

InputContents(ms) == [i \in 1..Len(ms) |-> ms[i].Content]

\* the role a message's role is written as on the wire
WireRole(a, role) == IF a = "gemini" /\ role = "assistant" THEN "model" ELSE role

InputList(a, ms) ==
    [i \in 1..Len(ms) |-> [role |-> WireRole(a, ms[i].Role), content |-> ms[i].Content]]

\* the model segment of a Gemini path .../models/<model>:<verb>
GeminiPathModel(path) ==
    LET i == CHOOSE k \in 1..Len(path) : path[k] = "models"
    IN SubSeq(path, i + 2, Len(path) - 1)

WireModel(a, request) ==
    IF a = "gemini" THEN GeminiPathModel(request.URL.Path) ELSE request.Body.model

Sent == { sent[i] : i \in 1..Len(sent) }

\* C11 as stated: for every adapter and every request whose first message has
\* role system, the wire payload carries that message's content in a separate
\* system-instruction field and lists the other messages in their order.
C11_SystemExtraction ==
    \A e \in Sent :
        FirstIsSystem(e.req.Messages) =>
            /\ WireSystem(adapter, e.request.Body) = Ptr(e.req.Messages[1].Content)
            /\ ContentsOf(WireList(adapter, e.request.Body))
                 = InputContents(Tail(e.req.Messages))

\* C11, amended: for every request whose first message has role system, the
\* Anthropic-style payload carries that message's content in its system field
\* (left out when the content is empty) and the Gemini-style payload in its
\* system-instruction object, and both list the input messages minus the
\* first in the same order; the OpenAI-style payload has no system field and
\* lists every input message, the system message first.
C11_SystemExtractionNative ==
    \A e \in Sent :
        FirstIsSystem(e.req.Messages) =>
            LET ms == e.req.Messages
                p == e.request.Body
            IN CASE adapter = "anthropic" ->
                      /\ WireSystem(adapter, p)
                           = IF ms[1].Content = "" THEN Nil ELSE Ptr(ms[1].Content)
                      /\ WireList(adapter, p) = InputList(adapter, Tail(ms))
                 [] adapter = "gemini" ->
                      /\ WireSystem(adapter, p) = Ptr(ms[1].Content)
                      /\ WireList(adapter, p) = InputList(adapter, Tail(ms))
                 [] adapter = "openai" ->
                      /\ WireList(adapter, p) = InputList(adapter, ms)
                      /\ WireList(adapter, p)[1] = [role |-> "system", content |-> ms[1].Content]

C11_Witness ==
    /\ adapter = "anthropic"
    /\ \E e \in Sent : /\ Len(e.req.Messages) = 2
                       /\ FirstIsSystem(e.req.Messages)
                       /\ e.req.Messages[1].Content = "S"
                       /\ e.op = "ChatStream"

\* C12: for every adapter and every request whose first message is not a
\* system message, the wire payload lists as many messages as the input, in
\* the same order and with the same content, and has no system-instruction
\* field; a system message at a position other than the first stays in the
\* message list.
C12_MessagePreservation ==
    \A e \in Sent :
        LET ms == e.req.Messages
            p == e.request.Body
            list == WireList(adapter, p)
            k == Len(ms) - Len(list)
        IN /\ (ms # << >> /\ ~FirstIsSystem(ms)) =>
                /\ Len(list) = Len(ms)
                /\ list = InputList(adapter, ms)
                /\ WireSystem(adapter, p) = Nil
           /\ \A j \in 2..Len(ms) :
                ms[j].Role = "system" =>
                    /\ j - k \in 1..Len(list)
                    /\ list[j - k] = [role |-> "system", content |-> ms[j].Content]

C12_Witness ==
    /\ adapter = "anthropic"
    /\ \E e \in Sent : /\ Len(e.req.Messages) = 2
                       /\ e.req.Messages[1].Role = "user"
                       /\ e.req.Messages[2].Role = "system"

\* C13: buildGeminiContents maps each message it does not extract, in order,
\* to one content object with exactly one text part equal to the message's
\* content, with role assistant renamed to model and every other role left as
\* it is; no content object has role assistant, in the output or on the wire.
C13_GeminiRoles ==
    \A e \in Sent :
        adapter = "gemini" =>
            LET ms == e.req.Messages
                rest == IF FirstIsSystem(ms) THEN Tail(ms) ELSE ms
                out == buildGeminiContents(ms).contents
            IN /\ ms # << >> => out # Nil
               /\ out # Nil =>
                    /\ Len(out[1]) = Len(rest)
                    /\ \A j \in 1..Len(rest) :
                         /\ Len(out[1][j].Parts) = 1
                         /\ out[1][j].Parts[1].Text = rest[j].Content
                         /\ out[1][j].Role = IF rest[j].Role = "assistant" THEN "model"
                                             ELSE rest[j].Role
                         /\ out[1][j].Role # "assistant"
               /\ \A j \in 1..Len(WireList(adapter, e.request.Body)) :
                    WireList(adapter, e.request.Body)[j].role # "assistant"

C13_Witness ==
    /\ adapter = "gemini"
    /\ \E e \in Sent : /\ Len(e.req.Messages) = 2
                       /\ e.req.Messages[1].Role = "assistant"
                       /\ e.req.Messages[2].Role = "tool"
                       /\ WireList(adapter, e.request.Body)[1].role = "model"

\* ------------------------------------------------- what a client is made of

\* a string that is empty after trimming white space
Blank(t) == \A i \in 1..Len(t) : t[i] = " "

\* the credential a request carries, where its wire protocol puts it
WireCredential(a, request) ==
    CASE a = "openai" ->
           IF request.Header["Authorization"] # << >>
              /\ Head(request.Header["Authorization"]) = "Bearer "
           THEN Tail(request.Header["Authorization"]) ELSE << >>
      [] a = "anthropic" -> request.Header["x-api-key"]
      [] a = "gemini" ->
           LET keys == SelectSeq(request.URL.Query, LAMBDA q : q.k = "key")
           IN IF keys = << >> THEN << >> ELSE keys[1].v

Constructing == pc \in {"new", "applied"}

\* C14: New*Client returns an error and no client whenever base URL,
\* credential or model is blank after trimming, and a client otherwise; a
\* constructed client holds a base URL, a credential and a model that are not
\* blank, and every request sent carries a credential that is not blank and,
\* when the call has no override, a model that is not blank.
C14_ConstructionValidation ==
    /\ ~Constructing =>
         IF Blank(cfg.BaseURL) \/ Blank(cfg.Token) \/ Blank(cfg.Model)
         THEN client = Nil /\ newErr # NoError /\ pc = "failed" /\ sent = << >>
         ELSE client # Nil /\ newErr = NoError
    /\ client # Nil =>
         /\ ~Blank(client[1].baseURL)
         /\ ~Blank(client[1].token)
         /\ ~Blank(client[1].model)
    /\ \A e \in Sent :
         /\ ~Blank(WireCredential(adapter, e.request))
         /\ Blank(e.req.Model) => ~Blank(WireModel(adapter, e.request))

C14_Witness ==
    /\ pc = "failed"
    /\ adapter = "openai"
    /\ cfg.BaseURL = GoodBaseURL
    /\ cfg.Token = << " " >>
    /\ cfg.Model = << " ", "m", " " >>

\* C15 as stated: the model sent on the wire is the request's model when that
\* is not blank and the adapter's default model otherwise.
C15_ModelOverride ==
    \A e \in Sent :
        WireModel(adapter, e.request)
          = IF Blank(e.req.Model) THEN TrimSpace(cfg.Model) ELSE e.req.Model

\* C15, amended: the model sent on the wire is the adapter's default model
\* when the request's model is blank; otherwise it is the request's model,
\* as given in the OpenAI-style and Anthropic-style payload and with
\* surrounding white space trimmed in the Gemini-style URL.  This holds of
\* every call made on a client, whatever the calls before it asked for.
C15_ModelOverrideTrimmed ==
    \A e \in Sent :
        WireModel(adapter, e.request)
          = IF Blank(e.req.Model) THEN TrimSpace(cfg.Model)
            ELSE IF adapter = "gemini" THEN TrimSpace(e.req.Model)
            ELSE e.req.Model

C15_Witness ==
    /\ Len(sent) = 2
    /\ sent[1].req.Model = << " ", "o", " " >>
    /\ sent[2].req.Model = << >>
    /\ sent[1].op # sent[2].op

\* ------------------------------------------------------ what a URL looks like
\* The endpoint rules as the providers' documentation states them, written
\* on the text of the base URL and not with the clients' string functions.

\* b without its trailing slashes
Stripped(b) ==
    LET n == CHOOSE k \in 0..Len(b) :
                 /\ k = 0 \/ b[k] # "/"
                 /\ \A j \in (k + 1)..Len(b) : b[j] = "/"
    IN SubSeq(b, 1, n)

EndsIn(t, segment) ==
    Len(t) >= 2 /\ t[Len(t) - 1] = "/" /\ t[Len(t)] = segment

\* base, stripped, followed by target, with /v1 between unless it is there
VersionedEndpoint(b, target) ==
    IF EndsIn(Stripped(b), "v1") THEN Stripped(b) \o target
    ELSE Stripped(b) \o << "/", "v1" >> \o target

\* the text /v1/v1 occurs in u
ContainsV1V1(u) ==
    \E i \in 1..Len(u) :
        /\ i + 3 <= Len(u)
        /\ u[i] = "/" /\ u[i + 1] = "v1" /\ u[i + 2] = "/"
        /\ u[i + 3] \in {"v1", "v1beta"}

\* C16 as stated: the OpenAI-style request URL is the stripped base followed
\* by /chat/completions, with /v1 between unless the stripped base ends in
\* it; it is the same for the base with a trailing slash, never contains
\* /v1/v1, and the request carries Authorization: Bearer <token>.
C16_OpenAIEndpoint ==
    \A e \in Sent :
        adapter = "openai" =>
            /\ e.request.URL = VersionedEndpoint(client[1].baseURL, ChatPath)
            /\ e.request.URL = VersionedEndpoint(client[1].baseURL \o << "/" >>, ChatPath)
            /\ e.request.URL = VersionedEndpoint(Stripped(client[1].baseURL), ChatPath)
            /\ ~ContainsV1V1(e.request.URL)
            /\ e.request.Header["Authorization"] = << "Bearer " >> \o TrimSpace(cfg.Token)

\* C16, amended: as stated, except that the URL contains /v1/v1 exactly when
\* the base URL already does.
C16_OpenAIEndpointNoNewV1 ==
    \A e \in Sent :
        adapter = "openai" =>
            /\ e.request.URL = VersionedEndpoint(client[1].baseURL, ChatPath)
            /\ e.request.URL = VersionedEndpoint(client[1].baseURL \o << "/" >>, ChatPath)
            /\ e.request.URL = VersionedEndpoint(Stripped(client[1].baseURL), ChatPath)
            /\ ContainsV1V1(e.request.URL) <=> ContainsV1V1(client[1].baseURL)
            /\ e.request.Header["Authorization"] = << "Bearer " >> \o TrimSpace(cfg.Token)

C16_Witness ==
    /\ adapter = "openai"
    /\ cfg.BaseURL = << "h", "/", "v1", "/", "/" >>
    /\ \E e \in Sent :
         e.request.URL = << "h", "/", "v1", "/", "chat", "/", "completions" >>

\* C17: the Anthropic-style request URL is the stripped base followed by
\* /messages, with /v1 between unless the stripped base ends in it; blocking
\* and streaming calls on one client use the same URL, and every request
\* carries the credential in x-api-key.
C17_AnthropicEndpoint ==
    \A e \in Sent :
        adapter = "anthropic" =>
            /\ e.request.URL = VersionedEndpoint(client[1].baseURL, MessagesPath)
            /\ \A f \in Sent : f.request.URL = e.request.URL
            /\ e.request.Header["x-api-key"] = TrimSpace(cfg.Token)

C17_Witness ==
    /\ adapter = "anthropic"
    /\ cfg.BaseURL = << "h", "/", "v1", "/" >>
    /\ Len(sent) = 2
    /\ sent[1].op = "Chat"
    /\ sent[2].op = "ChatStream"
    /\ sent[2].request.URL = << "h", "/", "v1", "/", "messages" >>

\* C18: every request of an Anthropic-style client carries an
\* anthropic-version header that is not empty, the configured version or
\* 2023-06-01 when that is blank, and a max_tokens above zero, the configured
\* value or 1024 when that is zero or negative.
C18_AnthropicDefaults ==
    \A e \in Sent :
        adapter = "anthropic" =>
            /\ ~Blank(e.request.Header["anthropic-version"])
            /\ e.request.Header["anthropic-version"]
                 = IF Blank(cfg.Version) THEN << "2023-06-01" >> ELSE TrimSpace(cfg.Version)
            /\ e.request.Body.max_tokens > 0
            /\ e.request.Body.max_tokens
                 = IF cfg.MaxTokens <= 0 THEN defaultAnthropicMaxTokens ELSE cfg.MaxTokens

C18_Witness ==
    /\ adapter = "anthropic"
    /\ cfg.Version = << " " >>
    /\ cfg.MaxTokens = -1
    /\ \E e \in Sent : e.op = "ChatStream" /\ e.request.Body.max_tokens = defaultAnthropicMaxTokens

Range(t) == { t[i] : i \in 1..Len(t) }

\* the path of a base URL: what follows the host, up to the query
BasePath(b) ==
    IF b[Len(b)] \in QueryTokens THEN SubSeq(b, 2, Len(b) - 1) ELSE SubSeq(b, 2, Len(b))

\* p without one trailing slash
LessOneSlash(p) ==
    IF p # << >> /\ p[Len(p)] = "/" THEN SubSeq(p, 1, Len(p) - 1) ELSE p

EndsInVersion(p) == EndsIn(LessOneSlash(p), "v1") \/ EndsIn(LessOneSlash(p), "v1beta")

\* the path made to end in /v1beta unless it ends in a version already
Normalized(p) ==
    IF EndsInVersion(p) THEN LessOneSlash(p) ELSE LessOneSlash(p) \o << "/", "v1beta" >>

\* p with every run of slashes written as one slash
RECURSIVE Squashed(_)
Squashed(p) ==
    IF p = << >> THEN << >>
    ELSE LET rest == Squashed(SubSeq(p, 1, Len(p) - 1))
         IN IF p[Len(p)] = "/" /\ rest # << >> /\ rest[Len(rest)] = "/"
            THEN rest ELSE Append(rest, p[Len(p)])

\* the number of version segments of a path
Versions(p) == Cardinality({ i \in 1..Len(p) : p[i] \in {"v1", "v1beta"} })

\* the model a call resolves to, trimmed
CallModel(e) == TrimSpace(IF Blank(e.req.Model) THEN cfg.Model ELSE e.req.Model)

VerbOf(o) == IF o = "ChatStream" THEN ":streamGenerateContent" ELSE ":generateContent"

\* C19 as stated: the Gemini-style path is <normalized>/models/<model>:<verb>,
\* where <normalized> is the base path made to end in /v1beta unless it ends
\* in /v1 or /v1beta already, with or without one trailing slash; a base path
\* that ends in a version gets no second one.
C19_GeminiPath ==
    \A e \in Sent :
        adapter = "gemini" =>
            LET p == BasePath(client[1].baseURL)
            IN /\ e.request.URL.Path
                    = Normalized(p) \o << "/", "models", "/" >> \o CallModel(e)
                        \o << VerbOf(e.op) >>
               /\ EndsInVersion(p) => Versions(e.request.URL.Path) = Versions(p)

\* C19, amended: the Gemini-style path is <normalized>/models/<model>:<verb>
\* with every run of slashes collapsed into one, as path.Join cleans it.
C19_GeminiPathCleaned ==
    \A e \in Sent :
        adapter = "gemini" =>
            LET p == BasePath(client[1].baseURL)
            IN /\ e.request.URL.Path
                    = Squashed(Normalized(p) \o << "/", "models", "/" >> \o CallModel(e)
                                 \o << VerbOf(e.op) >>)
               /\ EndsInVersion(p) => Versions(e.request.URL.Path) = Versions(p)

C19_Witness ==
    /\ adapter = "gemini"
    /\ cfg.BaseURL = << "h", "/", "/", "v1", "/" >>
    /\ \E e \in Sent :
         e.request.URL.Path = << "/", "v1", "/", "models", "/", "m", ":streamGenerateContent" >>

\* C20: every request of a Gemini-style client has exactly one query
\* parameter key, equal to the configured credential, whatever key the base
\* URL's query had; the other parameters of the base URL's query are there
\* as they were; no header of the request holds the credential.
C20_GeminiCredential ==
    \A e \in Sent :
        adapter = "gemini" =>
            LET q == e.request.URL.Query
                others(x) == SelectSeq(x, LAMBDA pr : pr.k # "key")
            IN /\ SelectSeq(q, LAMBDA pr : pr.k = "key")
                    = << QueryPair("key", TrimSpace(cfg.Token)) >>
               /\ others(q) = others(URLQuery(client[1].baseURL))
               /\ \A h \in DOMAIN e.request.Header :
                    \A i \in 1..Len(e.request.Header[h]) :
                        e.request.Header[h][i] \notin Range(TrimSpace(cfg.Token))

C20_Witness ==
    /\ adapter = "gemini"
    /\ cfg.BaseURL = << "h", "/", "v1", "?key=old&x=1" >>
    /\ \E e \in Sent :
         e.request.URL.Query = << QueryPair("key", << "k" >>), QueryPair("x", << "1" >>) >>

\* a base URL with a malformed escape
Unparseable(b) == "%" \in Range(b)

\* C21: buildGeminiEndpoint returns an error and no URL when base URL, model
\* or credential is blank or the base URL cannot be parsed; a Gemini-style
\* call whose endpoint cannot be built returns that error with a zero
\* response, sends no request and does not invoke the handler.
C21_GeminiEndpointFailure ==
    /\ (pc = "applied" /\ result # Nil) =>
         ((Blank(args[1]) \/ Blank(args[2]) \/ Blank(args[4]) \/ Unparseable(args[1]))
            => (result[1].err # NoError /\ result[1].url = Nil))
    /\ (adapter = "gemini" /\ client # Nil /\ Unparseable(client[1].baseURL)) =>
         /\ sent = << >>
         /\ requests = 0
         /\ delivered = << >>
         /\ bodyState = "none"
         /\ Returned => (err.prefix = "invalid base url: " /\ resp = ZeroResponse)

C21_Witness ==
    /\ adapter = "gemini"
    /\ op = "ChatStream"
    /\ Returned
    /\ client[1].baseURL = << "h", "/", "v1", "/", "%" >>
    /\ err.prefix = "invalid base url: "

\* C22: once httpClient.Do has returned a response, its body is closed exactly
\* once before the call returns, on every exit path; while the call runs the
\* body is open and not yet closed, and no call closes a body it never got.
C22_BodyRelease ==
    /\ closes <= 1
    /\ pc \in {"response", "scan"} => (bodyState = "open" /\ closes = 0)
    /\ Returned =>
         IF bodyState = "none" THEN closes = 0
         ELSE bodyState = "closed" /\ closes = 1

C22_Witness ==
    /\ Returned
    /\ op = "ChatStream"
    /\ err.prefix = "read stream: "
    /\ delivered # << >>
    /\ bodyState = "closed"
    /\ closes = 1

\* C23: a call makes at most one HTTP request: none when the request cannot be
\* built, one otherwise, whether the call then fails (transport, status,
\* decoding, reading, handler) or succeeds; a successful Chat made exactly one.
C23_SingleAttempt ==
    /\ requests <= 1
    /\ Len(sent) = requests
    /\ Returned =>
         requests = (IF BuildRequest(adapter, client[1], req, op).err # NoError THEN 0 ELSE 1)
    /\ (Returned /\ op = "Chat" /\ err = NoError) => requests = 1

C23_Witness ==
    /\ Returned
    /\ op = "Chat"
    /\ err = NoError
    /\ resp # ZeroResponse
    /\ requests = 1

\* C24: no call changes a field of the adapter: from construction on, before,
\* during and after every call, failed or successful, the adapter is what
\* New*Client made of the configuration.
C24_AdapterImmutability ==
    (pc \notin {"new", "failed", "applied"}) =>
        /\ client # Nil
        /\ client = NewClient(adapter, cfg).client

C24_Witness ==
    /\ Returned
    /\ ncalls = MaxCalls
    /\ Len(sent) = MaxCalls
    /\ ~Blank(sent[1].req.Model)
    /\ TrimSpace(sent[1].req.Model) # TrimSpace(cfg.Model)
    /\ err # NoError
    /\ client = NewClient(adapter, cfg).client

\* C26: a call whose request or whose read of the response body fails because
\* the context was cancelled returns an error that is not nil and the zero
\* ChatResponse, whatever ChatStream has delivered and accumulated by then.
C26_Cancellation ==
    (Returned /\ err.msg = Canceled) =>
        /\ err # NoError
        /\ err.prefix \in {adapter \o " request: ", "read stream: ", "decode response: "}
        /\ resp = ZeroResponse

C26_Witness ==
    /\ Returned
    /\ op = "ChatStream"
    /\ err = Errorf("read stream: ", Canceled)
    /\ delivered # << >>
    /\ content # ""
    /\ resp = ZeroResponse

\* The text pieces of a stream: the non-empty deltas of the chunks of lines
\* 1..n, in wire order.
Pieces(a, s, n) ==
    [i \in 1..Len(ExpectedCalls(a, s, n)) |-> ExpectedCalls(a, s, n)[i].delta]

\* The non-streamed response that carries the pieces in its first candidate:
\* as the message of the first choice (OpenAI), as text blocks (Anthropic), as
\* the parts of the first candidate (Gemini).
EquivalentBody(a, pieces, m, f) ==
    Body(TRUE,
         CASE a = "openai" ->
                OpenAIObj(m, << OpenAIChoice(Concat(pieces), "", f) >>, Nil)
           [] a = "anthropic" ->
                AnthropicObj(m, [i \in 1..Len(pieces) |-> AnthropicBlock("text", pieces[i])],
                             f, Nil)
           [] a = "gemini" ->
                GeminiObj(<< GeminiCandidate(pieces, f) >>, m, Nil))

\* C27: when ChatStream returns without error, its content is the
\* concatenation of the non-empty deltas of the stream, and Chat on the
\* non-streamed response that carries these pieces in order returns the same
\* content.
C27_StreamingBlockingEquivalence ==
    (InStream /\ Returned /\ err = NoError) =>
        LET pieces == Pieces(adapter, stream, pos)
            blocking == ChatDecoded(adapter,
                                    EquivalentBody(adapter, pieces, resp.Model,
                                                   resp.FinishReason))
        IN /\ resp.Content = Concat(pieces)
           /\ blocking.err = NoError
           /\ blocking.resp.Content = resp.Content

C27_Witness ==
    /\ InStream /\ Returned /\ err = NoError
    /\ adapter = "anthropic"
    /\ Len(Pieces(adapter, stream, pos)) = 2
    /\ resp.Content = "hello"

\* The events of type t of a stream of the scenario, in wire order.
EventsOfType(s, t) == SelectSeq(s, LAMBDA l : l.obj.Type = t)

ScenarioModel(s) == EventsOfType(s, "message_start")[1].obj.Message[1].Model

ScenarioStop(s) == EventsOfType(s, "message_delta")[1].obj.StopReason

ScenarioTexts(s) ==
    [i \in 1..Len(EventsOfType(s, "content_block_delta")) |->
        EventsOfType(s, "content_block_delta")[i].obj.Delta[1].Text]

NonEmpty(texts) == SelectSeq(texts, LAMBDA t : t # "")

\* an error event that carries an error object
Aborting(l) == l.obj.Type = "error" /\ l.obj.Error # Nil

\* ChatStream has returned from a stream of the scenario, and neither a read
\* of the body nor the handler has failed.
ScenarioProcessed ==
    /\ op = "ChatStream" /\ stream # << >> /\ Returned /\ bodyState = "closed"
    /\ err.prefix # "read stream: "
    /\ err \notin HandlerErrors

\* The step reads an event whose type is none of the scenario's three.
ReadsOtherEvent ==
    /\ pc = "scan" /\ op = "ChatStream" /\ stream # << >>
    /\ pos' = pos + 1
    /\ stream[pos + 1].obj.Type \notin {"message_start", "content_block_delta",
                                        "message_delta"}

\* C28: on a stream of one message_start with model M, content_block_delta
\* events with texts t1..tn and one message_delta with stop reason R,
\* ChatStream delivers the non-empty ti in order and returns {t1..tn
\* concatenated, M, R}; reading an event of any other type changes neither the
\* content, the model and the finish reason of the call nor what was
\* delivered (an error event with an error object ends the call).
C28_AnthropicScenario ==
    /\ [](ScenarioProcessed /\ (\A i \in 1..Len(stream) : ~Aborting(stream[i])) =>
            /\ err = NoError
            /\ resp = ChatResponse(Concat(ScenarioTexts(stream)), ScenarioModel(stream),
                                   ScenarioStop(stream))
            /\ handle => Deltas = NonEmpty(ScenarioTexts(stream)))
    /\ [][ReadsOtherEvent =>
            /\ content' = content
            /\ model' = model
            /\ finishReason' = finishReason
            /\ delivered' = delivered]_vars

C28_Witness ==
    /\ ScenarioProcessed
    /\ handle
    /\ \E i \in 1..Len(stream) : stream[i].obj.Type = "ping"
    /\ ScenarioTexts(stream) = << "he", "llo" >>
    /\ resp = ChatResponse("hello", "claude-test", "end_turn")

\* What a ChatStream call returns when nothing else runs: the record of the
\* call after its loop has run to its end on the call's own stream.
RECURSIVE RunAlone(_, _)
RunAlone(a, c) ==
    IF c.pc = "returned" THEN c
    ELSE IF c.pos < Len(c.stream) THEN RunAlone(a, ScanStep(a, c))
    ELSE CallReturns(c, ChatResponse(c.content, c.model, c.finishReason), NoError)

\* The same, with the read that follows line n failing.
RunAloneUntil(a, c, n) ==
    RunAlone(a, [c EXCEPT !.stream = SubSeq(c.stream, 1, n)])

IsPrefix(s, t) == Len(s) <= Len(t) /\ s = SubSeq(t, 1, Len(s))

\* C25: two ChatStream calls running at the same time on one adapter: under
\* every interleaving each handler has received a prefix of the deltas of its
\* own call's stream, a call that has returned has delivered and returned what
\* it delivers and returns when run alone (up to the read that failed, when
\* one did), and the adapter is unchanged.
C25_CallIndependence ==
    \A i \in DOMAIN conc :
        LET c == conc[i]
            alone == RunAlone(adapter, StreamCall(c.stream, c.failAt))
        IN /\ client = NewClient(adapter, cfg).client
           /\ IsPrefix(c.delivered, alone.delivered)
           /\ c.pc = "returned" =>
                IF c.err.prefix = "read stream: "
                THEN /\ c.resp = ZeroResponse
                     /\ c.delivered = RunAloneUntil(adapter, StreamCall(c.stream, c.failAt),
                                                    c.pos).delivered
                ELSE /\ c.resp = alone.resp
                     /\ c.err = alone.err
                     /\ c.delivered = alone.delivered

C25_Witness ==
    /\ Len(conc) = 2
    /\ conc[1].pc = "returned" /\ conc[2].pc = "returned"
    /\ conc[1].err = NoError /\ conc[2].err = NoError
    /\ conc[1].resp.Content # ""
    /\ conc[2].resp.Content # ""
    /\ conc[1].resp.Content # conc[2].resp.Content
    /\ Len(conc[1].delivered) = MaxConcLines

\* readInput has returned r on the arguments in args.
ReadInputApplied == pc = "applied" /\ args.fn = "readInput"

\* the arguments with one space between neighbours
RECURSIVE Spaced(_)
Spaced(a) ==
    IF Len(a) = 1 THEN a[1]
    ELSE Spaced(SubSeq(a, 1, Len(a) - 1)) \o << " " >> \o a[Len(a)]

\* t is d without the CR and LF characters at its end.
WithoutTrailingNewlines(t, d) ==
    /\ IsPrefix(t, d)
    /\ \A i \in (Len(t) + 1)..Len(d) : d[i] \in {"\r", "\n"}
    /\ t = << >> \/ t[Len(t)] \notin {"\r", "\n"}

\* C29: readInput returns an error given both arguments and a file, and given
\* neither; given arguments only, the arguments joined by single spaces;
\* given a file only, what the file (stdin when the file is "-") holds,
\* without the CR and LF characters at its end and otherwise as it is, or an
\* error when it cannot be read.  An error comes with the empty text.
C29_ReadInput ==
    ReadInputApplied =>
        LET a == args.arguments
            f == args.inputFile
            src == IF f = "-" THEN args.stdin ELSE args.file
            r == result[1]
        IN /\ (f # "" /\ a # << >>) => r.err # NoError
           /\ (f = "" /\ a = << >>) => r.err # NoError
           /\ (f = "" /\ a # << >>) => (r.err = NoError /\ r.text = Spaced(a))
           /\ (f # "" /\ a = << >> /\ src.ok) =>
                 (r.err = NoError /\ WithoutTrailingNewlines(r.text, src.data))
           /\ (f # "" /\ a = << >> /\ ~src.ok) => r.err # NoError
           /\ r.err # NoError => r.text = << >>

C29_Witness ==
    /\ ReadInputApplied
    /\ args.inputFile = "-"
    /\ args.arguments = << >>
    /\ args.stdin.ok
    /\ Len(args.stdin.data) = MaxText
    /\ args.stdin.data[1] = "\n"
    /\ args.stdin.data[MaxText] = "\n"
    /\ args.file.data # args.stdin.data
    /\ result[1].text # << >>
    /\ result[1].text[1] = "\n"
    /\ Len(result[1].text) < MaxText

\* C30: resolveLanguages returns (Simplified Chinese, English) when both
\* languages are auto and the input has a Han character, (English, Simplified
\* Chinese) when both are auto and it has none, so that the two differ; when
\* one of the two is not auto it returns both as given.
C30_ResolveLanguages ==
    (pc = "applied" /\ args.fn = "resolveLanguages") =>
        IF args.inputLanguage = "auto" /\ args.outputLanguage = "auto"
        THEN /\ result[1] = IF "han" \in Range(args.input)
                            THEN << "Simplified Chinese", "English" >>
                            ELSE << "English", "Simplified Chinese" >>
             /\ result[1][1] # result[1][2]
        ELSE result[1] = << args.inputLanguage, args.outputLanguage >>

C30_Witness ==
    /\ pc = "applied" /\ args.fn = "resolveLanguages"
    /\ args.inputLanguage = "auto" /\ args.outputLanguage = "auto"
    /\ args.input = << "a", "kana", "han" >>
    /\ result[1] = << "Simplified Chinese", "English" >>

\* The step is a loop iteration of ChatStream: it reads line pos + 1.
ReadsLine == pc = "scan" /\ op = "ChatStream" /\ pos' = pos + 1

\* The step changes nothing but the position in the body: no return, no
\* error, no handler call, the same content, model and finish reason.
NoEffect ==
    /\ pc' = "scan"
    /\ UNCHANGED << content, model, finishReason, delivered, resp, err, bodyState >>

\* C31: in OpenAI-style and Anthropic-style ChatStream, reading a line that
\* is blank or has no data: prefix has no effect, whatever its text: no error,
\* no handler call, no change of content, model or finish reason.
C31_LineFilter ==
    [][(ReadsLine /\ adapter \in {"openai", "anthropic"} /\ ~stream[pos + 1].pfx)
          => NoEffect]_vars

\* C31 witness: an error chunk without the prefix was read and the loop goes on.
C31_Witness ==
    /\ InStream /\ adapter \in {"openai", "anthropic"}
    /\ pc = "scan" /\ pos >= 1
    /\ ~stream[pos].pfx
    /\ stream[pos].kind = "json"
    /\ stream[pos].obj.Error # Nil

\* The same payload with the data: prefix added or taken away.
OtherPrefix(line) == [line EXCEPT !.pfx = ~line.pfx]

\* For the line a Gemini-style loop is about to read, the loop decides the
\* same with and without the prefix: the same control, delta, model and
\* finish reason.
PrefixOptional ==
    (InStream /\ adapter = "gemini" /\ pc = "scan" /\ pos < Len(stream)) =>
        StreamLine(adapter, stream[pos + 1], model, finishReason)
            = StreamLine(adapter, OtherPrefix(stream[pos + 1]), model, finishReason)

\* Reading a payload that begins with a brace and is not JSON of the schema
\* ends the call with a decode error.
IncompleteObjectFatal ==
    (ReadsLine /\ adapter = "gemini" /\ stream[pos + 1].kind = "badobj") =>
        /\ pc' = "returned"
        /\ err'.prefix = "decode stream chunk: "
        /\ resp' = ZeroResponse
        /\ UNCHANGED << content, model, finishReason, delivered >>

C33_EmptyDeltas ==
    /\ [](\A i \in 1..Len(delivered) : delivered[i].delta # "")
    /\ [][(ReadsLine /\ IsChunk(adapter, stream[pos + 1])
             /\ ChunkDelta(adapter, stream[pos + 1].obj) = "")
            => UNCHANGED << content, delivered >>]_vars

\* C33 witness: after a delivered delta, a chunk with an empty delta and no
\* error was read, and the handler was not called for it.
C33_Witness ==
    /\ InStream /\ handle /\ pc = "scan"
    /\ pos >= 2
    /\ IsChunk(adapter, stream[pos])
    /\ stream[pos].obj.Error = Nil
    /\ ChunkDelta(adapter, stream[pos].obj) = ""
    /\ Len(delivered) = 1 /\ delivered[1].line = pos - 1
    /\ content = delivered[1].delta

\* How a ChatStream call that read its stream ended.
StreamOutcomes ==
    { o \in {"success", "read error", "decode error", "provider error", "handler error"} :
        CASE o = "success"        -> err = NoError
          [] o = "read error"     -> err.prefix = "read stream: "
          [] o = "decode error"   -> err.prefix = "decode stream chunk: "
          [] o = "provider error" -> err.prefix = adapter \o " error: "
          [] o = "handler error"  -> err \in HandlerErrors }

\* C34: a call that has its response returns; ChatStream reads the lines of
\* its stream in order, each at most once, and when it returns after reading
\* the stream it has exactly one outcome: success (at the end of the input or
\* at a sentinel), read error, decode error, provider error or handler error.
C34_Termination ==
    /\ (pc \in {"response", "scan"}) ~> Returned
    /\ [](pos <= Len(stream))
    /\ [][pos' \in {pos, pos + 1}]_vars
    /\ []((InStream /\ Returned) =>
            /\ Cardinality(StreamOutcomes) = 1
            /\ err = NoError =>
                 (pos = Len(stream) \/ (pos >= 1 /\ stream[pos].kind = "done")))

\* C34 witness: a stream of MaxLines lines read to its end.
C34_Witness ==
    /\ InStream /\ Returned /\ err = NoError
    /\ pos = MaxLines
    /\ stream[pos].kind # "done"
    /\ Len(delivered) >= 2

\* C35: on every adapter and for both operations, a call that returns an
\* error returns the zero ChatResponse, whatever content, model id or finish
\* reason it had accumulated; a response that is not the zero value is
\* returned only with a nil error.
C35_NoPartialResult ==
    Returned =>
        /\ err # NoError => resp = ZeroResponse
        /\ resp # ZeroResponse => err = NoError

\* C35 witness: the handler failed on the second delta, after content, a
\* model id and a finish reason had been accumulated, and the call returned
\* the zero response with the handler's error.
C35_Witness ==
    /\ InStream /\ Returned
    /\ err \in HandlerErrors
    /\ Len(delivered) >= 2
    /\ content # "" /\ model # "" /\ finishReason # ""
    /\ resp = ZeroResponse

\* The provider's message in the body of a response, "" when the body does
\* not decode or carries no error object.
ProviderMessageOf(b) ==
    IF b.valid /\ b.obj.Error # Nil THEN b.obj.Error[1].Message ELSE ""

\* C36: on every adapter, with a status below 200 or of 300 and more, Chat
\* and ChatStream never read a stream line and never call the handler; the
\* call that received the response fails, its error carries the status code,
\* and carries the provider's message when the body decodes to an error
\* object with a non-empty message.
C36_Non2xxStatus ==
    (httpStatus < StatusOK \/ httpStatus >= StatusMultipleChoices) =>
        /\ pc # "scan" /\ pos = 0 /\ delivered = << >>
        /\ content = "" /\ model = "" /\ finishReason = ""
        /\ (Returned /\ bodyState # "none") =>
              /\ err # NoError
              /\ resp = ZeroResponse
              /\ err.status = httpStatus
              /\ ProviderMessageOf(body) # "" => err.msg = ProviderMessageOf(body)

\* C36 witness: ChatStream with a handler and a stream line to read got
\* status 300 and a body with a provider message, and returned the error
\* carrying both.
C36_Witness ==
    /\ Returned /\ op = "ChatStream" /\ handle
    /\ httpStatus = StatusMultipleChoices
    /\ stream # << >>
    /\ ProviderMessageOf(body) # ""
    /\ err.msg = ProviderMessageOf(body)
    /\ err.status = StatusMultipleChoices

\* The chunk has no choices (OpenAI) or no candidates (Gemini).
NoCandidates(a, obj) ==
    IF a = "openai" THEN obj.Choices = << >> ELSE obj.Candidates = << >>

\* The line read by this step is an OpenAI or Gemini chunk without an error
\* object.
ReadsChunk ==
    /\ ReadsLine
    /\ adapter \in {"openai", "gemini"}
    /\ IsChunk(adapter, stream[pos + 1])
    /\ stream[pos + 1].obj.Error = Nil

\* C37: in OpenAI-style and Gemini-style ChatStream the model id of a chunk
\* is recorded even when the chunk has no choices or candidates, and the
\* finish reason of its first candidate even when the delta is empty; both
\* are recorded by the time the handler is called for the chunk, whether the
\* handler fails or not; and a last chunk that carries only a finish reason
\* gives the finishReason of the returned response.
C37_StickyBeforeDelivery ==
    /\ [][ReadsChunk =>
            LET obj == stream[pos + 1].obj
                m == ChunkModel(adapter, obj)
                f == ChunkFinish(adapter, obj)
            IN /\ m # "" => model' = m
               /\ f # "" => finishReason' = f
               /\ delivered' # delivered =>
                     /\ model' = (IF m # "" THEN m ELSE model)
                     /\ finishReason' = (IF f # "" THEN f ELSE finishReason)]_vars
    /\ []((InStream /\ Returned /\ err = NoError /\ adapter \in {"openai", "gemini"}
               /\ pos >= 1 /\ IsChunk(adapter, stream[pos])
               /\ ChunkDelta(adapter, stream[pos].obj) = ""
               /\ ChunkFinish(adapter, stream[pos].obj) # "") =>
              resp.FinishReason = ChunkFinish(adapter, stream[pos].obj))

\* C37 witness: a chunk without choices or candidates gave the model id, a
\* chunk with a delta was delivered, a last chunk carried only a finish
\* reason, and the returned response has that model id and finish reason.
C37_Witness ==
    /\ InStream /\ Returned /\ err = NoError /\ handle
    /\ adapter \in {"openai", "gemini"}
    /\ pos = 3 /\ Len(delivered) = 1 /\ delivered[1].line = 2
    /\ IsChunk(adapter, stream[1]) /\ NoCandidates(adapter, stream[1].obj)
    /\ ChunkModel(adapter, stream[1].obj) # ""
    /\ resp.Model = ChunkModel(adapter, stream[1].obj)
    /\ IsChunk(adapter, stream[3])
    /\ ChunkDelta(adapter, stream[3].obj) = ""
    /\ ChunkFinish(adapter, stream[3].obj) # ""
    /\ resp.FinishReason = ChunkFinish(adapter, stream[3].obj)

\* The ChatStream call of this state run with a handler that always succeeds,
\* over the lines read so far.
WithSucceedingHandler == RunAloneUntil(adapter, StreamCall(stream, 0), pos)

\* C38: ChatStream with a nil handler, on every adapter, calls no handler
\* and never fails with a handler's failure; its content, model and finish
\* reason are at every point those of the same call with a handler that
\* always succeeds, and so are the response and the error it returns (a
\* failed read of the body apart, which is the body's and ends either call).
C38_NilHandler ==
    (InStream /\ ~handle) =>
        /\ delivered = << >>
        /\ err \notin HandlerErrors
        /\ content = WithSucceedingHandler.content
        /\ model = WithSucceedingHandler.model
        /\ finishReason = WithSucceedingHandler.finishReason
        /\ (Returned /\ err.prefix # "read stream: ") =>
              /\ resp = WithSucceedingHandler.resp
              /\ err = WithSucceedingHandler.err

\* C38 witness: a call with a nil handler read two chunks with a delta and
\* returned their concatenation, which a succeeding handler would have been
\* given in two calls.
C38_Witness ==
    /\ InStream /\ ~handle /\ Returned /\ err = NoError
    /\ Len(WithSucceedingHandler.delivered) = 2
    /\ resp.Content = Concat(WithSucceedingHandler.delivered)
    /\ resp.Model # "" /\ resp.FinishReason # ""
====
